---- MODULE Spec2Model ----
(***************************************************************************)
(* Model of the claude-gui renderer application: the MobX stores reached   *)
(* through RootStore (ConversationModel, APIModel, AuthenticationModel,    *)
(* TokenUsageModel), the PromptView and AuthModal handlers that drive      *)
(* them, and the main-process IPC handlers they call.                      *)
(*                                                                         *)
(* Every `await` of the source is a point where the handler is suspended;  *)
(* the synchronous code between two awaits is one action.  Strings are     *)
(* sequences of one-character strings, ids produced by uuidv4() are fresh  *)
(* naturals, the empty id '' is EmptyId, and null is Null.  Timestamps     *)
(* (createdAt, updatedAt, lastUsed) are not modelled.                      *)
(***************************************************************************)
EXTENDS Integers, Sequences, FiniteSets, TLC

\* ------------------------------------------------------------------ bounds
MaxConvs == 1
MaxMsgs == 2
MaxSubmits == 2
MaxProfiles == 2
MaxRecords == 2

\* --------------------------------------------------------- program constants
TitlePreviewLen == 30
CharsPerToken == 4
\* modelRates holds dollars per million tokens, the model hundredths of them
RateScale == 100

EmptyId == 0
Null == "null"
NoController == 0
NullResponse == [null |-> TRUE]
NoResult == [settled |-> "pending"]

\* ------------------------------------------------------------------ strings
RECURSIVE TrimLeft(_)
TrimLeft(s) ==
  IF s = <<>> THEN s
  ELSE IF Head(s) = " " THEN TrimLeft(Tail(s)) ELSE s

RECURSIVE TrimRight(_)
TrimRight(s) ==
  IF s = <<>> THEN s
  ELSE IF s[Len(s)] = " " THEN TrimRight(SubSeq(s, 1, Len(s) - 1)) ELSE s

Trim(s) == TrimRight(TrimLeft(s))

Slice(s, n) == SubSeq(s, 1, IF Len(s) < n THEN Len(s) ELSE n)

StartsWith(s, p) == Len(s) >= Len(p) /\ SubSeq(s, 1, Len(p)) = p

NewConversationPrefix ==
  <<"N","e","w"," ","C","o","n","v","e","r","s","a","t","i","o","n">>

Digit(n) == IF n < 10 THEN <<ToString(n)>> ELSE <<"9", "+">>

DefaultTitle(n) == NewConversationPrefix \o <<" ">> \o Digit(n)

Ellipsis == <<".", ".", ".">>

\* Math.floor in place of Math.ceil
EstimateTokens_Floor(s) == Len(s) \div CharsPerToken

\* Math.ceil(prompt.length / 4)
EstimateTokens(s) == (Len(s) + CharsPerToken - 1) \div CharsPerToken

RECURSIVE SumTokens(_)
SumTokens(msgs) ==
  IF msgs = <<>> THEN 0 ELSE Head(msgs).tokens + SumTokens(Tail(msgs))

\* Array.prototype.findIndex, 1-based; 0 stands for -1
RECURSIVE FindIndexFrom(_, _, _)
FindIndexFrom(s, id, i) ==
  IF i > Len(s) THEN 0
  ELSE IF s[i].id = id THEN i ELSE FindIndexFrom(s, id, i + 1)

FindIndex(s, id) == FindIndexFrom(s, id, 1)

\* an object literal with no fields, {}
Empty == [x \in {} |-> 0]

\* ------------------------------------------------------------------- state
VARIABLES
  \* ConversationModel
  conversations, activeConversationId, conversationTags, convError,
  nextConvId, nextMsgId, pendingDeletes,
  \* what the last call of a ConversationModel method that changes the store
  \* handed to its caller, and the last searchConversations call with the list
  \* it returned
  returned, lastSearch,
  \* where a ConversationModel.initialize() call stands
  convInit,
  \* AuthenticationModel and the main-process store behind it
  isAuthenticated, isAuthenticating, authProfiles, activeProfileId, authError,
  storeKeys, storeActiveProfileId, nextProfileId,
  \* AuthModal submits and the profile calls: where each one stands
  authFlows, profileDeletes, profileSwitches,
  \* the startup calls initialize() and checkAuthentication(): where each stands
  authInit, authCheck,
  \* APIModel
  isLoading, lastResponse, abortController, apiError,
  \* TokenUsageModel, the calls of window.electronAPI.recordUsage that have
  \* not settled yet, and the calendar day of the clock
  usageHistory, currentMonthUsage, costEstimate, usageError, usageSaves, today,
  \* PromptView
  prompt, toasts, subs

convVars == <<conversations, activeConversationId, conversationTags, convError,
              nextConvId, nextMsgId, pendingDeletes, returned, lastSearch,
              convInit>>
authVars == <<isAuthenticated, isAuthenticating, authProfiles, activeProfileId,
              authError, storeKeys, storeActiveProfileId, nextProfileId,
              authFlows, profileDeletes, profileSwitches, authInit, authCheck>>
apiVars == <<isLoading, lastResponse, abortController, apiError>>
usageVars == <<usageHistory, currentMonthUsage, costEstimate, usageError,
               usageSaves, today>>
viewVars == <<prompt, toasts, subs>>
vars == <<convVars, authVars, apiVars, usageVars, viewVars>>

\* --------------------------------------------------------- ConversationModel
Roles == {"user", "assistant", "system"}

\* outcome of an awaited window.electronAPI call that answers {success, error}
Outcomes == {"ok", "fail", "reject"}

GetConversationIndex(id) == FindIndex(conversations, id)

HasConversation(id) == GetConversationIndex(id) # 0

GetConversationById(id) == conversations[GetConversationIndex(id)]

HasActiveConversation == HasConversation(activeConversationId)

GetActiveConversation == GetConversationById(activeConversationId)

NewConversation(id, title, count) ==
  [ id |-> id,
    title |-> IF title # <<>> THEN title ELSE DefaultTitle(count + 1),
    messages |-> <<>>,
    tags |-> <<>>,
    totalTokens |-> 0,
    favorited |-> FALSE ]

\* metadata?.tokens || 0
MetadataTokens(metadata) ==
  IF "tokens" \in DOMAIN metadata THEN metadata.tokens ELSE 0

NewMessage(id, content, role, metadata) ==
  [ id |-> id, role |-> role, content |-> content,
    tokens |-> MetadataTokens(metadata) ]

CountRole(msgs, role) == Len(SelectSeq(msgs, LAMBDA m : m.role = role))

TitlePreview(content) ==
  Trim(Slice(content, TitlePreviewLen))
    \o (IF Len(content) > TitlePreviewLen THEN Ellipsis ELSE <<>>)

DerivedTitle(conv, msgs, role, content) ==
  IF /\ role = "user"
     /\ CountRole(msgs, "user") = 1
     /\ StartsWith(conv.title, NewConversationPrefix)
  THEN TitlePreview(content)
  ELSE conv.title

\* the synchronous part of addMessage on the active conversation
AddMessageTo(conv, message) ==
  LET msgs == Append(conv.messages, message) IN
  [ conv EXCEPT
      !.messages = msgs,
      !.totalTokens = conv.totalTokens + message.tokens,
      !.title = DerivedTitle(conv, msgs, message.role, message.content) ]

\* updates.metadata?.tokens !== undefined
UpdatesTokens(updates) ==
  "metadata" \in DOMAIN updates /\ "tokens" \in DOMAIN updates.metadata

TokenDifference(original, updates) ==
  IF UpdatesTokens(updates)
  THEN updates.metadata.tokens - original.tokens
  ELSE 0

MergedMessage(original, updates) ==
  [ id |-> original.id,
    role |-> IF "role" \in DOMAIN updates THEN updates.role ELSE original.role,
    content |-> IF "content" \in DOMAIN updates THEN updates.content
                ELSE original.content,
    tokens |-> IF UpdatesTokens(updates) THEN updates.metadata.tokens
               ELSE original.tokens ]

UpdateMessageIn(conv, messageIndex, updates) ==
  LET original == conv.messages[messageIndex] IN
  [ conv EXCEPT
      !.messages[messageIndex] = MergedMessage(original, updates),
      !.totalTokens = conv.totalTokens + TokenDifference(original, updates) ]

\* deleteMessage that lowers the running total and keeps the message
DeleteMessageFrom_KeepsMessage(conv, messageId) ==
  LET message == conv.messages[FindIndex(conv.messages, messageId)] IN
  [ conv EXCEPT !.totalTokens = conv.totalTokens - message.tokens ]

\* deleteMessage that forgets to lower the running total
DeleteMessageFrom_KeepsTotal(conv, messageId) ==
  [ conv EXCEPT
      !.messages = SelectSeq(conv.messages, LAMBDA m : m.id # messageId) ]

DeleteMessageFrom(conv, messageId) ==
  LET message == conv.messages[FindIndex(conv.messages, messageId)] IN
  [ conv EXCEPT
      !.messages = SelectSeq(conv.messages, LAMBDA m : m.id # messageId),
      !.totalTokens = conv.totalTokens - message.tokens ]

\* conversations with the active conversation replaced by conv
WithActive(conv) ==
  [conversations EXCEPT ![GetConversationIndex(activeConversationId)] = conv]

\* ---------------------------------------------------------------- inputs
Prompts == { <<" ">>, <<"H", "i">> }

Contents == { <<"H", "i">> }

Titles == { <<>> }

TokenCounts == {0, 2}

Metadatas == {Empty} \cup { [tokens |-> t] : t \in TokenCounts }

MessageUpdates ==
  {Empty, [metadata |-> Empty]}
    \cup { [metadata |-> [tokens |-> t]] : t \in TokenCounts }

ConvIds == 1 .. MaxConvs

MsgIds == 1 .. MaxMsgs

SubIds == 1 .. MaxSubmits

ProfileIds == 1 .. MaxProfiles

\* AuthModal submits; each one draws at most one profile id
FlowIds == 1 .. MaxProfiles

\* what the user typed into the API key field
SomeKey == <<"s", "k", "-", "1", "2">>

ApiKeys == { <<" ">>, SomeKey }

\* key.slice(0, 4), the wrong end of the key
KeyLastDigits_First(key) == SubSeq(key, 1, IF Len(key) < 4 THEN Len(key) ELSE 4)

\* key.slice(-4)
KeyLastDigits(key) ==
  SubSeq(key, IF Len(key) > 4 THEN Len(key) - 3 ELSE 1, Len(key))

\* an AuthProfile: its id and the end of its key
Profile(id, key) == [id |-> id, keyLastDigits |-> KeyLastDigits(key)]

\* ------------------------------------------------------------------- Init
\* no searchConversations call was made yet
NoSearch == [called |-> FALSE]

\* a handleSubmit invocation that has not been started yet
IdleSub ==
  [ pc |-> "idle", prompt |-> <<>>, conv |-> EmptyId, result |-> NoResult,
    response |-> NullResponse, aborted |-> FALSE ]

InitConv ==
  /\ conversations = <<>>
  /\ activeConversationId = EmptyId
  /\ convError = Null
  /\ nextConvId = 1
  /\ nextMsgId = 1
  /\ pendingDeletes = {}
  /\ conversationTags = <<>>
  /\ returned = Null
  /\ lastSearch = NoSearch
  /\ convInit = "idle"

\* an AuthModal.handleSubmit invocation that has not been started yet
IdleFlow ==
  [pc |-> "idle", apiKey |-> <<>>, isValid |-> Null, profileId |-> EmptyId]

\* a deleteProfile call: where it stands and the id it writes back
IdleDelete == [pc |-> "idle", active |-> EmptyId]

\* a checkAuthentication call: where it stands and the profile it read
IdleCheck == [pc |-> "idle", profileId |-> EmptyId]

InitAuthCalls ==
  /\ authFlows = [i \in FlowIds |-> IdleFlow]
  /\ profileDeletes = [id \in ProfileIds |-> IdleDelete]
  /\ profileSwitches = [id \in ProfileIds |-> "idle"]
  /\ authInit = "idle"
  /\ authCheck = IdleCheck

InitAuth ==
  /\ isAuthenticated = FALSE
  /\ isAuthenticating = FALSE
  /\ authProfiles = <<>>
  /\ activeProfileId = EmptyId
  /\ authError = Null
  /\ storeKeys = {}
  /\ storeActiveProfileId = EmptyId
  /\ nextProfileId = 1
  /\ InitAuthCalls

\* ------------------------------------------------------ TokenUsageModel
\* calendar days of one year; the date strings YYYY-MM-DD of the code compare
\* as these do
Date(month, day) == [month |-> month, day |-> day]

DaysInMonth(month) ==
  IF month = 2 THEN 28 ELSE IF month \in {4, 6, 9, 11} THEN 30 ELSE 31

DateLeq(a, b) == a.month < b.month \/ (a.month = b.month /\ a.day <= b.day)

NextDay(date) ==
  IF date.day < DaysInMonth(date.month) THEN Date(date.month, date.day + 1)
  ELSE Date(date.month + 1, 1)

\* modelRates, in hundredths of a dollar per million tokens
DefaultModel == "claude-3-opus-20240229"

ModelRates ==
  ("claude-3-opus-20240229" :> [prompt |-> 1500, completion |-> 7500])
    @@ ("claude-3-sonnet-20240229" :> [prompt |-> 300, completion |-> 1500])
    @@ ("claude-3-haiku-20240307" :> [prompt |-> 25, completion |-> 125])
    @@ ("claude-2.1" :> [prompt |-> 800, completion |-> 2400])
    @@ ("claude-2.0" :> [prompt |-> 800, completion |-> 2400])
    @@ ("claude-instant-1.2" :> [prompt |-> 163, completion |-> 551])

Rates(model) ==
  IF model \in DOMAIN ModelRates THEN ModelRates[model] ELSE ModelRates[DefaultModel]

\* (tokens / 1000000) * rate dollars, in millionths of a dollar; the product
\* is taken in two parts to stay inside 32-bit integers, and the token counts
\* the model uses make it a whole number
Scaled(tokens, rate) ==
  (tokens \div RateScale) * rate + ((tokens % RateScale) * rate) \div RateScale

\* a cost that forgets the completion tokens
Cost_PromptOnly(promptTokens, completionTokens, model) ==
  Scaled(promptTokens, Rates(model).prompt)

\* promptCost + completionCost
Cost(promptTokens, completionTokens, model) ==
  Scaled(promptTokens, Rates(model).prompt)
    + Scaled(completionTokens, Rates(model).completion)

UsageRecord(date, model, promptTokens, completionTokens) ==
  [ date |-> date, model |-> model, promptTokens |-> promptTokens,
    completionTokens |-> completionTokens,
    cost |-> Cost(promptTokens, completionTokens, model) ]

EmptySummary ==
  [ totalPromptTokens |-> 0, totalCompletionTokens |-> 0, totalCost |-> 0,
    usageByModel |-> <<>>, dailyUsage |-> <<>> ]

\* usageByModel[model], created with zeros when missing
ModelEntry(summary, model) ==
  IF model \in DOMAIN summary.usageByModel THEN summary.usageByModel[model]
  ELSE [promptTokens |-> 0, completionTokens |-> 0, cost |-> 0]

\* dailyUsage[date], created with zeros when missing
DayEntry(summary, date) ==
  IF date \in DOMAIN summary.dailyUsage THEN summary.dailyUsage[date]
  ELSE [date |-> date, tokens |-> 0, cost |-> 0]

\* the statements that add one record to a summary; recordUsage applies them
\* to currentMonthUsage and getUsageSummary to the summary it builds
AddUsage(summary, record) ==
  LET byModel == ModelEntry(summary, record.model)
      byDay == DayEntry(summary, record.date)
  IN [ totalPromptTokens |-> summary.totalPromptTokens + record.promptTokens,
       totalCompletionTokens |->
         summary.totalCompletionTokens + record.completionTokens,
       totalCost |-> summary.totalCost + record.cost,
       usageByModel |->
         (record.model :>
            [ promptTokens |-> byModel.promptTokens + record.promptTokens,
              completionTokens |->
                byModel.completionTokens + record.completionTokens,
              cost |-> byModel.cost + record.cost ])
           @@ summary.usageByModel,
       dailyUsage |->
         (record.date :>
            [ date |-> record.date,
              tokens |-> byDay.tokens + record.promptTokens
                           + record.completionTokens,
              cost |-> byDay.cost + record.cost ])
           @@ summary.dailyUsage ]

RECURSIVE SummaryOf(_)
SummaryOf(records) ==
  IF records = <<>> THEN EmptySummary
  ELSE AddUsage(SummaryOf(SubSeq(records, 1, Len(records) - 1)),
                records[Len(records)])

\* getUsageSummary(startDate, endDate) over a ledger
GetUsageSummary(history, start, end) ==
  SummaryOf(SelectSeq(history,
                      LAMBDA record : DateLeq(start, record.date)
                                        /\ DateLeq(record.date, end)))

\* getUsageSummary() without arguments: all time
GetUsageSummaryAll(history) == GetUsageSummary(history, Date(1, 1), Date(12, 31))

RECURSIVE SumCost(_)
SumCost(records) ==
  IF records = <<>> THEN 0 ELSE records[1].cost + SumCost(Tail(records))

\* calculatePreviousMonthCost(); no record is older than the modelled year
CalculatePreviousMonthCost(history, now) ==
  SumCost(SelectSeq(history, LAMBDA record : record.date.month = now.month - 1))

\* the number (cost / days) * times, kept unevaluated
Projection(cost, days, times) == [cost |-> cost, days |-> days, times |-> times]

\* updateCostEstimates(): the month's cost so far per day passed, times the
\* days of the month
CostEstimates(history, summary, now) ==
  [ monthlyProjection |->
      Projection(summary.totalCost, now.day, DaysInMonth(now.month)),
    currentMonth |-> summary.totalCost,
    previousMonth |-> CalculatePreviousMonthCost(history, now) ]

\* the day the session runs on when the clock is left alone
StartDay == Date(1, 30)

\* the days a session of the usage store may start on and the day the clock
\* stops at
StartDays == {Date(1, 30), Date(1, 31)}

LastDay == Date(2, 2)

\* the models of the price table and one that is not in it
UsageModels == DOMAIN ModelRates \cup {"claude-x"}

PriceTokens == {0, 1000000}

LedgerModels == {"claude-3-opus-20240229", "claude-3-haiku-20240307"}

LedgerTokens == {0, 100}

InitUsage ==
  /\ usageHistory = <<>>
  /\ currentMonthUsage = EmptySummary
  /\ costEstimate =
       [ monthlyProjection |-> Projection(0, 1, 1), currentMonth |-> 0,
         previousMonth |-> 0 ]
  /\ usageError = Null
  /\ usageSaves = 0

\* what the usage store leaves alone
notUsage == <<convVars, authVars, apiVars, viewVars>>

\* recordUsage(promptTokens, completionTokens, model): it returns with the
\* call of window.electronAPI.recordUsage still in flight
RecordUsage(promptTokens, completionTokens, model) ==
  LET usageRecord == UsageRecord(today, model, promptTokens, completionTokens) IN
  /\ usageHistory' = Append(usageHistory, usageRecord)
  /\ currentMonthUsage' = AddUsage(currentMonthUsage, usageRecord)
  /\ costEstimate' = CostEstimates(usageHistory', currentMonthUsage', today)
  /\ usageSaves' = usageSaves + 1
  /\ UNCHANGED <<usageError, today>>

\* window.electronAPI.recordUsage settles inside saveUsageStats: only a
\* rejected call is caught
SaveUsageStatsSettles(outcome) ==
  /\ usageSaves > 0
  /\ usageSaves' = usageSaves - 1
  /\ usageError' = IF outcome = "reject" THEN "Failed to save usage statistics"
                   ELSE usageError
  /\ UNCHANGED <<usageHistory, currentMonthUsage, costEstimate, today>>
  /\ UNCHANGED notUsage

\* recordUsage called on the store
RecordUsageCall(promptTokens, completionTokens, model) ==
  /\ Len(usageHistory) < MaxRecords
  /\ RecordUsage(promptTokens, completionTokens, model)
  /\ UNCHANGED notUsage

\* midnight passes
Tick ==
  /\ today # LastDay
  /\ today' = NextDay(today)
  /\ UNCHANGED <<usageHistory, currentMonthUsage, costEstimate, usageError,
                 usageSaves, notUsage>>

InitApi ==
  /\ isLoading = FALSE
  /\ lastResponse = NullResponse
  /\ abortController = NoController
  /\ apiError = Null

InitView ==
  /\ InitUsage
  /\ today = StartDay
  /\ prompt = <<>>
  /\ toasts = <<>>
  /\ subs = [i \in SubIds |-> IdleSub]

\* the stores as RootStore's constructor leaves them
Init == InitConv /\ InitAuth /\ InitApi /\ InitView

\* the usage store alone on a day that does not end: every model, whole
\* millions of tokens
NextPrices ==
  \/ \E promptTokens \in PriceTokens, completionTokens \in PriceTokens,
        model \in UsageModels :
       RecordUsageCall(promptTokens, completionTokens, model)
  \/ \E outcome \in Outcomes : SaveUsageStatsSettles(outcome)

SpecPrices == Init /\ [][NextPrices]_vars

\* the usage store of RootStore before anything was recorded, on one of the
\* start days
InitCalendar ==
  /\ InitConv /\ InitAuth /\ InitApi /\ InitUsage
  /\ today \in StartDays
  /\ prompt = <<>>
  /\ toasts = <<>>
  /\ subs = [i \in SubIds |-> IdleSub]

\* the usage store over a few days around the end of a month
NextLedger ==
  \/ \E promptTokens \in LedgerTokens, completionTokens \in LedgerTokens,
        model \in LedgerModels :
       RecordUsageCall(promptTokens, completionTokens, model)
  \/ \E outcome \in Outcomes : SaveUsageStatsSettles(outcome)
  \/ Tick

SpecLedger == InitCalendar /\ [][NextLedger]_vars

\* ------------------------------------------------ ConversationModel actions
\* what the methods that change the conversation store leave alone
notConv == <<authVars, apiVars, usageVars, viewVars, lastSearch, convInit>>

\* saveConversation(conversation): the conversation is already in the list,
\* so only the answer of window.electronAPI.saveConversation changes state;
\* the answer is taken when the call is made
\* a save whose failure leaves the error as it was
SaveError_Silent(outcome, error) == error

SaveError(outcome, error) ==
  CASE outcome = "ok" -> error
    [] outcome = "fail" -> "Failed to save conversation"
    [] outcome = "reject" -> "Unknown error saving conversation"

\* what saveConversation returns
SaveResult(outcome) == IF outcome = "ok" THEN "true" ELSE "false"

\* convs.flatMap(conv => conv.tags)
RECURSIVE FlatTags(_)
FlatTags(convs) ==
  IF convs = <<>> THEN <<>> ELSE Head(convs).tags \o FlatTags(Tail(convs))

\* Array.from(new Set(tags)): every tag once, in order of first occurrence
RECURSIVE Unique(_)
Unique(tags) ==
  IF tags = <<>> THEN <<>>
  ELSE LET rest == Unique(SubSeq(tags, 1, Len(tags) - 1))
           last == tags[Len(tags)]
       IN IF \E k \in 1 .. Len(rest) : rest[k] = last THEN rest
          ELSE Append(rest, last)

UniqueTags(convs) == Unique(FlatTags(convs))

\* createConversation(title); its save is not awaited
CreateConversation(title, outcome) ==
  /\ nextConvId <= MaxConvs
  /\ conversations' =
       Append(conversations, NewConversation(nextConvId, title, Len(conversations)))
  /\ activeConversationId' = nextConvId
  /\ nextConvId' = nextConvId + 1
  /\ convError' = SaveError(outcome, convError)
  /\ returned' = "conversation"
  /\ UNCHANGED <<conversationTags, nextMsgId, pendingDeletes, notConv>>

SetActiveConversation(id) ==
  /\ IF HasConversation(id)
     THEN /\ activeConversationId' = id
          /\ returned' = "true"
          /\ UNCHANGED convError
     ELSE /\ convError' = "Conversation not found"
          /\ returned' = "false"
          /\ UNCHANGED activeConversationId
  /\ UNCHANGED <<conversations, conversationTags, nextConvId, nextMsgId,
                 pendingDeletes, notConv>>

\* deleteConversation(id) up to its await of window.electronAPI.deleteConversation
DeleteConversation(id) ==
  /\ id \notin pendingDeletes
  /\ pendingDeletes' = pendingDeletes \cup {id}
  /\ UNCHANGED <<conversations, activeConversationId, conversationTags, convError,
                 nextConvId, nextMsgId, returned, notConv>>

RemainingAfterDelete(id) == SelectSeq(conversations, LAMBDA c : c.id # id)

\* a deleteConversation that falls back to the last remaining conversation
ActiveAfterDelete_Last(id) ==
  IF activeConversationId = id
  THEN IF Len(RemainingAfterDelete(id)) > 0
       THEN RemainingAfterDelete(id)[Len(RemainingAfterDelete(id))].id
       ELSE EmptyId
  ELSE activeConversationId

ActiveAfterDelete(id) ==
  IF activeConversationId = id
  THEN IF Len(RemainingAfterDelete(id)) > 0
       THEN RemainingAfterDelete(id)[1].id ELSE EmptyId
  ELSE activeConversationId

\* deleteConversation(id) after the storage call answered
DeleteConversationSettles(id, outcome) ==
  /\ id \in pendingDeletes
  /\ pendingDeletes' = pendingDeletes \ {id}
  /\ IF outcome = "ok"
     THEN /\ conversations' = RemainingAfterDelete(id)
          /\ activeConversationId' = ActiveAfterDelete(id)
          /\ conversationTags' = UniqueTags(conversations')
          /\ returned' = "true"
          /\ UNCHANGED convError
     ELSE /\ convError' = IF outcome = "fail" THEN "Failed to delete conversation"
                          ELSE "Error deleting conversation"
          /\ returned' = "false"
          /\ UNCHANGED <<conversations, activeConversationId, conversationTags>>
  /\ UNCHANGED <<nextConvId, nextMsgId, notConv>>

\* addMessage(content, role, metadata) called on the store
AddMessage(content, role, metadata, outcome) ==
  /\ nextMsgId <= MaxMsgs
  /\ IF HasActiveConversation
     THEN /\ conversations' =
               WithActive(AddMessageTo(GetActiveConversation,
                                       NewMessage(nextMsgId, content, role, metadata)))
          /\ nextMsgId' = nextMsgId + 1
          /\ convError' = SaveError(outcome, convError)
          /\ returned' = "message"
     ELSE /\ convError' = "No active conversation"
          /\ returned' = Null
          /\ UNCHANGED <<conversations, nextMsgId>>
  /\ UNCHANGED <<activeConversationId, conversationTags, nextConvId,
                 pendingDeletes, notConv>>

UpdateMessage(messageId, updates, outcome) ==
  /\ IF ~HasActiveConversation
     THEN /\ convError' = "No active conversation"
          /\ returned' = "false"
          /\ UNCHANGED conversations
     ELSE LET conv == GetActiveConversation
              messageIndex == FindIndex(conv.messages, messageId) IN
          IF messageIndex = 0
          THEN /\ convError' = "Message not found"
               /\ returned' = "false"
               /\ UNCHANGED conversations
          ELSE /\ conversations' = WithActive(UpdateMessageIn(conv, messageIndex, updates))
               /\ convError' = SaveError(outcome, convError)
               /\ returned' = SaveResult(outcome)
  /\ UNCHANGED <<activeConversationId, conversationTags, nextConvId, nextMsgId,
                 pendingDeletes, notConv>>

DeleteMessage(messageId, outcome) ==
  /\ IF ~HasActiveConversation
     THEN /\ convError' = "No active conversation"
          /\ returned' = "false"
          /\ UNCHANGED conversations
     ELSE LET conv == GetActiveConversation IN
          IF FindIndex(conv.messages, messageId) = 0
          THEN /\ convError' = "Message not found"
               /\ returned' = "false"
               /\ UNCHANGED conversations
          ELSE /\ conversations' = WithActive(DeleteMessageFrom(conv, messageId))
               /\ convError' = SaveError(outcome, convError)
               /\ returned' = SaveResult(outcome)
  /\ UNCHANGED <<activeConversationId, conversationTags, nextConvId, nextMsgId,
                 pendingDeletes, notConv>>

\* the conversation store driven through its public methods
NextConv ==
  \/ \E title \in Titles, outcome \in Outcomes : CreateConversation(title, outcome)
  \/ \E id \in ConvIds : SetActiveConversation(id)
  \/ \E id \in ConvIds : DeleteConversation(id)
  \/ \E id \in ConvIds, outcome \in Outcomes : DeleteConversationSettles(id, outcome)
  \/ \E content \in Contents, role \in {"user", "assistant"},
        metadata \in Metadatas, outcome \in Outcomes :
       AddMessage(content, role, metadata, outcome)
  \/ \E messageId \in MsgIds, updates \in MessageUpdates, outcome \in Outcomes :
       UpdateMessage(messageId, updates, outcome)
  \/ \E messageId \in MsgIds, outcome \in Outcomes : DeleteMessage(messageId, outcome)

SpecConv == Init /\ [][NextConv]_vars

\* the message methods of the store, on conversations created in the session
NextMessages ==
  \/ \E title \in Titles, outcome \in Outcomes : CreateConversation(title, outcome)
  \/ \E content \in Contents, role \in {"user", "assistant"},
        metadata \in Metadatas, outcome \in Outcomes :
       AddMessage(content, role, metadata, outcome)
  \/ \E messageId \in MsgIds, updates \in MessageUpdates, outcome \in Outcomes :
       UpdateMessage(messageId, updates, outcome)
  \/ \E messageId \in MsgIds, outcome \in Outcomes : DeleteMessage(messageId, outcome)

SpecMessages == Init /\ [][NextMessages]_vars

\* conversations[index] with one field replaced
WithConversation(conversationId, conv) ==
  [conversations EXCEPT ![GetConversationIndex(conversationId)] = conv]

\* updateTags(conversationId, tags); the tag list is rebuilt after a save
\* that succeeded
UpdateTags(conversationId, tags, outcome) ==
  /\ IF ~HasConversation(conversationId)
     THEN /\ convError' = "Conversation not found"
          /\ returned' = "false"
          /\ UNCHANGED <<conversations, conversationTags>>
     ELSE /\ conversations' =
               WithConversation(conversationId,
                 [GetConversationById(conversationId) EXCEPT !.tags = tags])
          /\ convError' = SaveError(outcome, convError)
          /\ conversationTags' = IF outcome = "ok" THEN UniqueTags(conversations')
                                 ELSE conversationTags
          /\ returned' = SaveResult(outcome)
  /\ UNCHANGED <<activeConversationId, nextConvId, nextMsgId, pendingDeletes,
                 notConv>>

ToggleFavorite(conversationId, outcome) ==
  /\ IF ~HasConversation(conversationId)
     THEN /\ convError' = "Conversation not found"
          /\ returned' = "false"
          /\ UNCHANGED conversations
     ELSE /\ conversations' =
               WithConversation(conversationId,
                 [GetConversationById(conversationId) EXCEPT
                    !.favorited = ~GetConversationById(conversationId).favorited])
          /\ convError' = SaveError(outcome, convError)
          /\ returned' = SaveResult(outcome)
  /\ UNCHANGED <<activeConversationId, conversationTags, nextConvId, nextMsgId,
                 pendingDeletes, notConv>>

UpdateTitle(conversationId, title, outcome) ==
  /\ IF ~HasConversation(conversationId)
     THEN /\ convError' = "Conversation not found"
          /\ returned' = "false"
          /\ UNCHANGED conversations
     ELSE /\ conversations' =
               WithConversation(conversationId,
                 [GetConversationById(conversationId) EXCEPT !.title = title])
          /\ convError' = SaveError(outcome, convError)
          /\ returned' = SaveResult(outcome)
  /\ UNCHANGED <<activeConversationId, conversationTags, nextConvId, nextMsgId,
                 pendingDeletes, notConv>>

\* what window.electronAPI.getConversations() answers at startup: nothing, or
\* two conversations of an earlier session
SavedMessage ==
  [id |-> 201, role |-> "user", content |-> <<"H", "i">>, tokens |-> 2]

SavedFirst ==
  [ id |-> 101, title |-> <<"H", "i">>, messages |-> <<SavedMessage>>,
    tags |-> <<"a">>, totalTokens |-> 2, favorited |-> FALSE ]

SavedSecond ==
  [ id |-> 102, title |-> DefaultTitle(2), messages |-> <<>>, tags |-> <<>>,
    totalTokens |-> 0, favorited |-> TRUE ]

SavedConversations == { <<>>, <<SavedFirst, SavedSecond>> }

\* ids a caller of the store can pass
StoreIds == ConvIds \cup {101, 102}

\* titles passed to createConversation and updateTitle
ExplicitTitles == { <<"T">>, NewConversationPrefix \o <<"!">> }

TagLists == { <<>>, <<"b", "a">> }

\* the store after ConversationModel.initialize() loaded the saved conversations
InitStore ==
  /\ conversations \in SavedConversations
  /\ conversationTags = UniqueTags(conversations)
  /\ activeConversationId = EmptyId
  /\ convError = Null
  /\ nextConvId = 1
  /\ nextMsgId = 1
  /\ pendingDeletes = {}
  /\ returned = Null
  /\ lastSearch = NoSearch
  /\ convInit = "idle"
  /\ InitAuth /\ InitApi /\ InitView

\* the conversation list of a session that started with saved conversations
NextLoaded ==
  \/ \E outcome \in Outcomes : CreateConversation(<<>>, outcome)
  \/ \E id \in StoreIds : SetActiveConversation(id)
  \/ \E id \in StoreIds : DeleteConversation(id)
  \/ \E id \in StoreIds, outcome \in Outcomes : DeleteConversationSettles(id, outcome)
  \/ \E id \in StoreIds, outcome \in Outcomes : ToggleFavorite(id, outcome)

SpecLoaded == InitStore /\ [][NextLoaded]_vars

\* how window.electronAPI.getConversations settles: with a saved list, or
\* rejected
GetConversationsAnswers ==
  { [settled |-> "resolve", list |-> saved] : saved \in SavedConversations }
    \cup { [settled |-> "reject"] }

\* initialize() up to its await of window.electronAPI.getConversations
LoadConversations ==
  /\ convInit = "idle"
  /\ convInit' = "loading"
  /\ UNCHANGED <<conversations, activeConversationId, conversationTags, convError,
                 nextConvId, nextMsgId, pendingDeletes, returned, lastSearch,
                 authVars, apiVars, usageVars, viewVars>>

\* the saved list arrives: it replaces the conversations and the tag list is
\* rebuilt; activeConversationId is left as it is
LoadConversationsReturns(answer) ==
  /\ convInit = "loading"
  /\ convInit' = "idle"
  /\ IF answer.settled = "resolve"
     THEN /\ conversations' = answer.list
          /\ conversationTags' = UniqueTags(answer.list)
          /\ UNCHANGED convError
     ELSE /\ convError' = "Failed to load conversations"
          /\ UNCHANGED <<conversations, conversationTags>>
  /\ UNCHANGED <<activeConversationId, nextConvId, nextMsgId, pendingDeletes,
                 returned, lastSearch, authVars, apiVars, usageVars, viewVars>>

\* reset()
Reset ==
  /\ conversations' = <<>>
  /\ activeConversationId' = EmptyId
  /\ conversationTags' = <<>>
  /\ convError' = Null
  /\ UNCHANGED <<nextConvId, nextMsgId, pendingDeletes, returned, notConv>>

\* the store from its construction on: loading, creating, selecting,
\* deleting and resetting
NextLifecycle ==
  \/ LoadConversations
  \/ \E answer \in GetConversationsAnswers : LoadConversationsReturns(answer)
  \/ \E outcome \in Outcomes : CreateConversation(<<>>, outcome)
  \/ \E id \in StoreIds : SetActiveConversation(id)
  \/ \E id \in StoreIds : DeleteConversation(id)
  \/ \E id \in StoreIds, outcome \in Outcomes : DeleteConversationSettles(id, outcome)
  \/ Reset

SpecLifecycle == Init /\ [][NextLifecycle]_vars

\* the methods that change a conversation, on a store that starts empty
NextStore ==
  \/ \E title \in {<<>>} \cup ExplicitTitles, outcome \in Outcomes :
       CreateConversation(title, outcome)
  \/ \E id \in ConvIds : SetActiveConversation(id)
  \/ \E content \in Contents, role \in {"user", "assistant"},
        metadata \in Metadatas, outcome \in Outcomes :
       AddMessage(content, role, metadata, outcome)
  \/ \E messageId \in MsgIds, updates \in MessageUpdates, outcome \in Outcomes :
       UpdateMessage(messageId, updates, outcome)
  \/ \E messageId \in MsgIds, outcome \in Outcomes : DeleteMessage(messageId, outcome)
  \/ \E id \in ConvIds, tags \in TagLists, outcome \in Outcomes :
       UpdateTags(id, tags, outcome)
  \/ \E id \in ConvIds, outcome \in Outcomes : ToggleFavorite(id, outcome)
  \/ \E id \in ConvIds, title \in ExplicitTitles, outcome \in Outcomes :
       UpdateTitle(id, title, outcome)

SpecStore == Init /\ [][NextStore]_vars

\* ------------------------------------------------------ searchConversations
\* String.prototype.toLowerCase on the letters the model uses
ToLower(ch) ==
  CASE ch = "H" -> "h"
    [] ch = "I" -> "i"
    [] ch = "T" -> "t"
    [] ch = "N" -> "n"
    [] ch = "C" -> "c"
    [] OTHER -> ch

\* a search that compares the text as it is written
LowerCase_AsWritten(s) == s

LowerCase(s) == [k \in 1 .. Len(s) |-> ToLower(s[k])]

\* String.prototype.includes
Includes(s, part) ==
  \E k \in 0 .. Len(s) - Len(part) : SubSeq(s, k + 1, k + Len(part)) = part

\* the tags argument: left out, or a list
NoTags == [given |-> FALSE, list |-> <<>>]

Tags(list) == [given |-> TRUE, list |-> list]

\* tags && tags.length > 0
TagsGiven(tags) == tags.given /\ Len(tags.list) > 0

\* tags.some(tag => conversation.tags.includes(tag))
HasMatchingTag(conv, tags) ==
  \E k \in 1 .. Len(tags.list) :
    \E j \in 1 .. Len(conv.tags) : conv.tags[j] = tags.list[k]

\* the filter callback of searchConversations
SearchKeeps(conv, query, tags) ==
  LET lowerQuery == LowerCase(query) IN
  IF TagsGiven(tags) /\ ~HasMatchingTag(conv, tags) THEN FALSE
  ELSE IF query = <<>> THEN TRUE
  ELSE IF Includes(LowerCase(conv.title), lowerQuery) THEN TRUE
  ELSE \E k \in 1 .. Len(conv.messages) :
         Includes(LowerCase(conv.messages[k].content), lowerQuery)

SearchConversations(query, tags) ==
  IF query = <<>> /\ ~TagsGiven(tags) THEN conversations
  ELSE SelectSeq(conversations, LAMBDA conv : SearchKeeps(conv, query, tags))

\* what ConversationListView types into the search box and selects as tags
Queries == { <<>>, <<"h">>, <<"I">>, <<"t">>, <<"x">> }

SearchTags == { NoTags, Tags(<<>>), Tags(<<"a">>), Tags(<<"b", "z">>) }

\* searchConversations(query, tags): a read that hands back a list
Search(query, tags) ==
  /\ UNCHANGED <<conversations, activeConversationId, conversationTags, convError,
                 nextConvId, nextMsgId, pendingDeletes, returned, convInit,
                 authVars, apiVars, usageVars, viewVars>>
  /\ lastSearch' = [called |-> TRUE, query |-> query, tags |-> tags,
                    result |-> SearchConversations(query, tags)]

\* searches between changes of tags and titles that were saved
NextSearch ==
  \/ \E query \in Queries, tags \in SearchTags : Search(query, tags)
  \/ \E id \in StoreIds, tags \in TagLists : UpdateTags(id, tags, "ok")
  \/ \E id \in StoreIds, title \in ExplicitTitles : UpdateTitle(id, title, "ok")

SpecSearch == InitStore /\ [][NextSearch]_vars

\* ------------------------------------------------------------- APIModel
ReplyText == <<"H", "i">>

ReplyUsage == [input_tokens |-> 2, output_tokens |-> 3]

\* result.data of a transport answer with success = true: a full reply, one
\* without usage, one without content
ReplyDatas ==
  { [content |-> ReplyText, usage |-> ReplyUsage],
    [content |-> ReplyText],
    [usage |-> ReplyUsage] }

\* how window.electronAPI.sendPrompt settles
TransportAnswers ==
  { [settled |-> "resolve", success |-> TRUE, data |-> d] : d \in ReplyDatas }
    \cup { [settled |-> "resolve", success |-> FALSE, error |-> "API request failed"],
           [settled |-> "reject", message |-> "Network error"] }

\* how window.electronAPI.getApiKey settles: the stored key, '' when the
\* main process holds none for the profile, or a rejected call
KeyAnswers == {"resolve", "reject"}

HasKey(profileId) == profileId \in storeKeys

\* message of the error thrown in sendPrompt's try block once getApiKey
\* settled, Null when nothing is thrown
KeyThrown(keyAnswer) ==
  IF keyAnswer = "reject" THEN "Error invoking remote method"
  ELSE IF ~HasKey(activeProfileId) THEN "No API key available"
  ELSE Null

\* the same once the transport settled
ReplyThrown(answer) ==
  IF answer.settled = "reject" THEN answer.message
  ELSE IF ~answer.success THEN answer.error
  ELSE IF "content" \notin DOMAIN answer.data \/ "usage" \notin DOMAIN answer.data
       THEN "TypeError"
  ELSE Null

\* if (response.usage) recordUsage(...), reached before the reply is formatted
RecordsUsage(answer) ==
  /\ answer.settled = "resolve"
  /\ answer.success
  /\ "usage" \in DOMAIN answer.data

FormattedResponse(data) ==
  [ content |-> data.content,
    inputTokens |-> data.usage.input_tokens,
    outputTokens |-> data.usage.output_tokens ]

\* a catch block that forgets isLoading
CatchState_StillLoading(message) == [error |-> message, isLoading |-> TRUE]

\* a catch block that forgets the error
CatchState_NoError(message) == [error |-> Null, isLoading |-> FALSE]

\* what sendPrompt's catch block leaves in the store
CatchState(message) == [error |-> message, isLoading |-> FALSE]

\* -------------------------------------------------------------- PromptView
Toast(title, description, status) ==
  [title |-> title, description |-> description, status |-> status]

\* !prompt.trim()
IsEmptyPrompt(p) == Trim(p) = <<>>

\* a handleSubmit without the authentication check
NotAuthenticated_Never == FALSE

\* !authStore.isAuthenticated
NotAuthenticated == ~isAuthenticated

\* the first handleSubmit invocation not started yet, 0 when all were
RECURSIVE NextSubFrom(_)
NextSubFrom(i) ==
  IF i > MaxSubmits THEN 0
  ELSE IF subs[i].pc = "idle" THEN i ELSE NextSubFrom(i + 1)

NextSub == NextSubFrom(1)

\* metadata handleSubmit passes with the user message: { tokens: tokenCount }
UserMetadata(p) == [tokens |-> EstimateTokens(p)]

\* metadata handleSubmit passes with the reply: { tokens: usage.outputTokens }
AssistantMetadata(response) == [tokens |-> response.outputTokens]

\* conversations with the conversation of that id replaced by conv
ReplaceConversation(convs, id, conv) ==
  [convs EXCEPT ![FindIndex(convs, id)] = conv]

\* setPrompt(e.target.value) from the textarea's onChange
TypePrompt(p) ==
  /\ p # prompt
  /\ prompt' = p
  /\ UNCHANGED <<convVars, authVars, apiVars, usageVars, toasts, subs>>

\* handleSubmit up to its first await, run as invocation i
HandleSubmit(i) ==
  /\ i # 0
  /\ IF IsEmptyPrompt(prompt)
     THEN /\ toasts' = Append(toasts, Toast("Empty prompt", Null, "warning"))
          /\ subs' = [subs EXCEPT ![i].pc = "empty"]
          /\ UNCHANGED convVars
     ELSE IF NotAuthenticated
     THEN /\ toasts' = Append(toasts, Toast("Not authenticated", Null, "error"))
          /\ subs' = [subs EXCEPT ![i].pc = "unauthenticated"]
          /\ UNCHANGED convVars
     ELSE /\ HasActiveConversation \/ nextConvId <= MaxConvs
          /\ \E created \in Outcomes, saved \in Outcomes :
               LET convs == IF HasActiveConversation THEN conversations
                            ELSE Append(conversations,
                                        NewConversation(nextConvId, <<>>,
                                                        Len(conversations)))
                   active == IF HasActiveConversation THEN activeConversationId
                             ELSE nextConvId
                   conv == convs[FindIndex(convs, active)]
                   message == NewMessage(nextMsgId, prompt, "user",
                                         UserMetadata(prompt))
               IN /\ conversations' =
                       ReplaceConversation(convs, active, AddMessageTo(conv, message))
                  /\ activeConversationId' = active
                  /\ nextConvId' = IF HasActiveConversation THEN nextConvId
                                   ELSE nextConvId + 1
                  /\ nextMsgId' = nextMsgId + 1
                  /\ convError' =
                       SaveError(saved,
                                 IF HasActiveConversation THEN convError
                                 ELSE SaveError(created, convError))
                  /\ returned' = "message"
                  /\ subs' = [subs EXCEPT ![i].pc = "saveUser",
                                          ![i].prompt = prompt,
                                          ![i].conv = active]
          /\ UNCHANGED <<conversationTags, pendingDeletes, lastSearch, convInit,
                         toasts>>
  /\ UNCHANGED <<authVars, apiVars, usageVars, prompt>>

\* the Send button, which Chakra disables while apiStore.isLoading
ClickSend ==
  /\ ~isLoading
  /\ HandleSubmit(NextSub)

\* Ctrl+Enter or Cmd+Enter in the textarea
PressCtrlEnter == HandleSubmit(NextSub)

\* the user message is saved and handleSubmit calls sendPrompt, which runs up
\* to its await of getApiKey
SaveUserSettles(i) ==
  /\ subs[i].pc = "saveUser"
  /\ isLoading' = TRUE
  /\ apiError' = Null
  /\ abortController' = i
  /\ subs' = [subs EXCEPT ![i].pc = "getKey"]
  /\ UNCHANGED <<convVars, authVars, lastResponse, usageVars, prompt, toasts>>

\* sendPrompt returned null: else if (apiStore.error) toast(...)
ToastsAfterFailure(error) ==
  IF error # Null THEN Append(toasts, Toast("API Error", error, "error"))
  ELSE toasts

\* getApiKey settles; without a key sendPrompt ends in its catch and finally
\* blocks and handleSubmit goes on with the null it returns
GetApiKeyReturns(i, keyAnswer) ==
  /\ subs[i].pc = "getKey"
  /\ IF KeyThrown(keyAnswer) = Null
     THEN /\ subs' = [subs EXCEPT ![i].pc = "transport"]
          /\ UNCHANGED <<apiVars, toasts>>
     ELSE /\ apiError' = CatchState(KeyThrown(keyAnswer)).error
          /\ isLoading' = CatchState(KeyThrown(keyAnswer)).isLoading
          /\ abortController' = NoController
          /\ toasts' = ToastsAfterFailure(apiError')
          /\ subs' = [subs EXCEPT ![i].pc = "failed"]
          /\ UNCHANGED lastResponse
  /\ UNCHANGED <<convVars, authVars, usageVars, prompt>>

\* the transport settles: sendPrompt runs to its end and handleSubmit goes on
\* with what it returns, up to the await inside the second addMessage
TransportReturns(i, answer) ==
  /\ subs[i].pc = "transport"
  /\ IF RecordsUsage(answer)
     THEN RecordUsage(answer.data.usage.input_tokens,
                      answer.data.usage.output_tokens, DefaultModel)
     ELSE UNCHANGED usageVars
  /\ abortController' = NoController
  /\ IF ReplyThrown(answer) # Null
     THEN /\ apiError' = CatchState(ReplyThrown(answer)).error
          /\ isLoading' = CatchState(ReplyThrown(answer)).isLoading
          /\ toasts' = ToastsAfterFailure(apiError')
          /\ subs' = [subs EXCEPT ![i].pc = "failed", ![i].result = answer]
          /\ UNCHANGED <<lastResponse, convVars>>
     ELSE LET response == FormattedResponse(answer.data) IN
          /\ lastResponse' = response
          /\ isLoading' = FALSE
          /\ subs' = [subs EXCEPT ![i].pc = "saveAssistant",
                                  ![i].result = answer,
                                  ![i].response = response]
          /\ IF HasActiveConversation
             THEN \E saved \in Outcomes :
                    /\ conversations' =
                         WithActive(
                           AddMessageTo(GetActiveConversation,
                                        NewMessage(nextMsgId, response.content,
                                                   "assistant",
                                                   AssistantMetadata(response))))
                    /\ nextMsgId' = nextMsgId + 1
                    /\ convError' = SaveError(saved, convError)
                    /\ returned' = "message"
             ELSE /\ convError' = "No active conversation"
                  /\ returned' = Null
                  /\ UNCHANGED <<conversations, nextMsgId>>
          /\ UNCHANGED <<activeConversationId, conversationTags, nextConvId,
                         pendingDeletes, lastSearch, convInit,
                         apiError, toasts>>
  /\ UNCHANGED <<authVars, prompt>>

\* the reply is saved: setPrompt('')
SaveAssistantSettles(i) ==
  /\ subs[i].pc = "saveAssistant"
  /\ prompt' = <<>>
  /\ subs' = [subs EXCEPT ![i].pc = "done"]
  /\ UNCHANGED <<convVars, authVars, apiVars, usageVars, toasts>>

\* abortRequest(); the controller it aborts belongs to the sendPrompt call
\* that created it, and its signal is handed to nobody
AbortRequest ==
  /\ IF abortController # NoController
     THEN /\ subs' = [subs EXCEPT ![abortController].aborted = TRUE]
          /\ abortController' = NoController
          /\ isLoading' = FALSE
     ELSE UNCHANGED <<subs, abortController, isLoading>>
  /\ UNCHANGED <<convVars, authVars, lastResponse, apiError, usageVars,
                 prompt, toasts>>

\* PromptView and the stores behind it
NextSubmit ==
  \/ \E p \in Prompts : TypePrompt(p)
  \/ ClickSend
  \/ PressCtrlEnter
  \/ \E i \in SubIds : SaveUserSettles(i)
  \/ \E i \in SubIds, keyAnswer \in KeyAnswers : GetApiKeyReturns(i, keyAnswer)
  \/ \E i \in SubIds, answer \in TransportAnswers : TransportReturns(i, answer)
  \/ \E i \in SubIds : SaveAssistantSettles(i)
  \/ AbortRequest
  \/ \E outcome \in Outcomes : SaveUsageStatsSettles(outcome)

\* ConversationListView: the new and delete buttons
NextList ==
  \/ \E outcome \in Outcomes : CreateConversation(<<>>, outcome)
  \/ \E id \in ConvIds : DeleteConversation(id)
  \/ \E id \in ConvIds, outcome \in Outcomes : DeleteConversationSettles(id, outcome)

\* the renderer: PromptView next to the conversation list
Next == NextSubmit \/ NextList

\* what initialize() finds in the main process: no active profile; an active
\* profile with its key; an active profile whose key setting was cleared
AuthStates ==
  { [isAuthenticated |-> FALSE, activeProfileId |-> EmptyId, storeKeys |-> {}],
    [isAuthenticated |-> TRUE, activeProfileId |-> 1, storeKeys |-> {1}],
    [isAuthenticated |-> TRUE, activeProfileId |-> 1, storeKeys |-> {}] }

\* the stores once RootStore has initialized them
InitSession ==
  /\ InitConv /\ InitApi /\ InitView
  /\ \E a \in AuthStates :
       /\ isAuthenticated = a.isAuthenticated
       /\ activeProfileId = a.activeProfileId
       /\ storeKeys = a.storeKeys
       /\ authProfiles = IF a.activeProfileId = EmptyId THEN <<>>
                         ELSE <<Profile(a.activeProfileId, SomeKey)>>
       /\ storeActiveProfileId = a.activeProfileId
       /\ nextProfileId = IF a.activeProfileId = EmptyId THEN 1 ELSE 2
  /\ isAuthenticating = FALSE
  /\ authError = Null
  /\ InitAuthCalls

Spec == InitSession /\ [][Next]_vars

\* PromptView on its own
SpecSubmit == InitSession /\ [][NextSubmit]_vars

\* a session of an authenticated user that started with one saved
\* conversation
InitSwitch ==
  /\ conversations = <<SavedFirst>>
  /\ conversationTags = UniqueTags(conversations)
  /\ activeConversationId = EmptyId
  /\ convError = Null
  /\ nextConvId = 1
  /\ nextMsgId = 1
  /\ pendingDeletes = {}
  /\ returned = Null
  /\ lastSearch = NoSearch
  /\ convInit = "idle"
  /\ InitApi /\ InitView
  /\ isAuthenticated = TRUE
  /\ isAuthenticating = FALSE
  /\ authProfiles = <<Profile(1, SomeKey)>>
  /\ activeProfileId = 1
  /\ authError = Null
  /\ storeKeys = {1}
  /\ storeActiveProfileId = 1
  /\ nextProfileId = 2
  /\ InitAuthCalls

\* PromptView next to a conversation list in which the user picks a
\* conversation
NextSwitch ==
  \/ NextSubmit
  \/ \E id \in StoreIds : SetActiveConversation(id)

SpecSwitch == InitSwitch /\ [][NextSwitch]_vars

\* every IPC call the main process received is answered
SpecFair ==
  /\ SpecSubmit
  /\ \A i \in SubIds :
       /\ WF_vars(SaveUserSettles(i))
       /\ WF_vars(\E keyAnswer \in KeyAnswers : GetApiKeyReturns(i, keyAnswer))
       /\ WF_vars(\E answer \in TransportAnswers : TransportReturns(i, answer))
       /\ WF_vars(SaveAssistantSettles(i))

\* --------------------------------------------- AuthenticationModel, AuthModal
\* what AuthModal and the profile methods leave alone
notAuth == <<convVars, apiVars, usageVars, prompt, subs, authInit, authCheck>>

ProfileIndex(id) == FindIndex(authProfiles, id)

HasProfile(id) == ProfileIndex(id) # 0

\* the first AuthModal submit not started yet, 0 when all were
RECURSIVE NextFlowFrom(_)
NextFlowFrom(i) ==
  IF i > MaxProfiles THEN 0
  ELSE IF authFlows[i].pc = "idle" THEN i ELSE NextFlowFrom(i + 1)

NextFlow == NextFlowFrom(1)

\* AuthModal.handleSubmit up to the await inside validateAPIKey; the submit
\* button is disabled while authStore.isAuthenticating
AuthSubmit(i, apiKey) ==
  /\ i # 0
  /\ ~isAuthenticating
  /\ IF Trim(apiKey) = <<>>
     THEN /\ toasts' = Append(toasts, Toast("Error", "Please enter an API key", "error"))
          /\ authFlows' = [authFlows EXCEPT ![i].pc = "emptyKey"]
          /\ UNCHANGED <<isAuthenticating, authError>>
     ELSE /\ isAuthenticating' = TRUE
          /\ authError' = Null
          /\ authFlows' = [authFlows EXCEPT ![i].pc = "validating",
                                            ![i].apiKey = apiKey]
          /\ UNCHANGED toasts
  /\ UNCHANGED <<isAuthenticated, authProfiles, activeProfileId, storeKeys,
                 storeActiveProfileId, nextProfileId, profileDeletes,
                 profileSwitches, notAuth>>

\* the error validateAPIKey records
ValidateError(outcome) ==
  CASE outcome = "ok" -> authError
    [] outcome = "fail" -> "Invalid API key or connection error"
    [] outcome = "reject" -> "Error validating API key: Unknown error"

\* an AuthModal that stores the key whatever the validation said
StoresKey_Always(isValid) == TRUE

\* if (isValid) in AuthModal.handleSubmit
StoresKey(isValid) == isValid

\* validateApiKey settles: validateAPIKey returns this.isAuthenticated and
\* handleSubmit either calls storeAPIKey, which draws a profile id and awaits
\* the main process, or reports the key as invalid
ValidateReturns(i, outcome) ==
  /\ authFlows[i].pc = "validating"
  /\ isAuthenticating' = FALSE
  /\ isAuthenticated' = (outcome = "ok")
  /\ authError' = ValidateError(outcome)
  /\ IF StoresKey(isAuthenticated')
     THEN /\ nextProfileId <= MaxProfiles
          /\ authFlows' = [authFlows EXCEPT ![i].pc = "storing",
                                            ![i].isValid = isAuthenticated',
                                            ![i].profileId = nextProfileId]
          /\ nextProfileId' = nextProfileId + 1
          /\ UNCHANGED toasts
     ELSE /\ authFlows' = [authFlows EXCEPT ![i].pc = "invalid",
                                            ![i].isValid = isAuthenticated']
          /\ toasts' = Append(toasts, Toast("Invalid API Key", authError', "error"))
          /\ UNCHANGED nextProfileId
  /\ UNCHANGED <<authProfiles, activeProfileId, storeKeys, storeActiveProfileId,
                 profileDeletes, profileSwitches, notAuth>>

\* the error storeAPIKey records
StoreError(outcome) ==
  CASE outcome = "ok" -> authError
    [] outcome = "fail" -> "Failed to store API key"
    [] outcome = "reject" -> "Unknown error storing API key"

\* store-api-key settles: on success the main process holds the key and the
\* active profile id, and storeAPIKey adds the profile and activates it
StoreReturns(i, outcome) ==
  /\ authFlows[i].pc = "storing"
  /\ authError' = StoreError(outcome)
  /\ IF outcome = "ok"
     THEN /\ storeKeys' = storeKeys \cup {authFlows[i].profileId}
          /\ storeActiveProfileId' = authFlows[i].profileId
          /\ authProfiles' = Append(authProfiles,
                                    Profile(authFlows[i].profileId,
                                            authFlows[i].apiKey))
          /\ activeProfileId' = authFlows[i].profileId
          /\ isAuthenticated' = TRUE
          /\ toasts' = Append(toasts, Toast("Success", Null, "success"))
          /\ authFlows' = [authFlows EXCEPT ![i].pc = "stored"]
     ELSE /\ toasts' = Append(toasts, Toast("Error", authError', "error"))
          /\ authFlows' = [authFlows EXCEPT ![i].pc = "storeFailed"]
          /\ UNCHANGED <<storeKeys, storeActiveProfileId, authProfiles,
                         activeProfileId, isAuthenticated>>
  /\ UNCHANGED <<isAuthenticating, nextProfileId, profileDeletes,
                 profileSwitches, notAuth>>

\* deleteProfile(profileId) up to its await of setSetting('auth.keys.<id>', null)
DeleteProfile(profileId) ==
  /\ profileDeletes[profileId].pc \in {"idle", "true", "false"}
  /\ profileDeletes' = [profileDeletes EXCEPT ![profileId] =
                          [pc |-> "deleting", active |-> EmptyId]]
  /\ UNCHANGED <<isAuthenticated, isAuthenticating, authProfiles, activeProfileId,
                 authError, storeKeys, storeActiveProfileId, nextProfileId,
                 authFlows, profileSwitches, toasts, notAuth>>

\* this.authProfiles.filter(p => p.id !== profileId)
ProfilesWithout(profileId) == SelectSeq(authProfiles, LAMBDA q : q.id # profileId)

\* this.isAuthenticated = this.authProfiles.length > 0, that keeps it set
AuthenticatedAfterDelete_Always(remaining) == TRUE

\* this.isAuthenticated = this.authProfiles.length > 0
AuthenticatedAfterDelete(remaining) == Len(remaining) > 0

\* this.activeProfileId = length > 0 ? this.authProfiles[0].id : ''
ActiveAfterDeleteProfile(remaining) ==
  IF Len(remaining) > 0 THEN remaining[1].id ELSE EmptyId

\* the error deleteProfile records
DeleteProfileError(outcome) ==
  CASE outcome = "ok" -> authError
    [] outcome = "fail" -> "Failed to delete profile"
    [] outcome = "reject" -> "Unknown error deleting profile"

\* the key's setting is written: the profile leaves the list, the active
\* profile falls back if it was the deleted one, and deleteProfile awaits
\* setSetting('auth.activeProfileId', this.activeProfileId)
DeleteProfileSettles(profileId, outcome) ==
  /\ profileDeletes[profileId].pc = "deleting"
  /\ authError' = DeleteProfileError(outcome)
  /\ IF outcome = "ok"
     THEN /\ storeKeys' = storeKeys \ {profileId}
          /\ authProfiles' = ProfilesWithout(profileId)
          /\ IF activeProfileId = profileId
             THEN /\ activeProfileId' = ActiveAfterDeleteProfile(authProfiles')
                  /\ isAuthenticated' = AuthenticatedAfterDelete(authProfiles')
             ELSE UNCHANGED <<activeProfileId, isAuthenticated>>
          /\ profileDeletes' = [profileDeletes EXCEPT ![profileId] =
                                  IF activeProfileId' # profileId
                                  THEN [pc |-> "savingActive",
                                        active |-> activeProfileId']
                                  ELSE [pc |-> "true", active |-> EmptyId]]
     ELSE /\ profileDeletes' = [profileDeletes EXCEPT ![profileId].pc = "false"]
          /\ UNCHANGED <<storeKeys, authProfiles, activeProfileId, isAuthenticated>>
  /\ UNCHANGED <<isAuthenticating, storeActiveProfileId, nextProfileId, authFlows,
                 profileSwitches, toasts, notAuth>>

\* the active profile id is written back, its result is not looked at; a
\* rejected call ends in the catch block
DeleteProfileReturns(profileId, outcome) ==
  /\ profileDeletes[profileId].pc = "savingActive"
  /\ storeActiveProfileId' = IF outcome = "ok" THEN profileDeletes[profileId].active
                             ELSE storeActiveProfileId
  /\ authError' = IF outcome = "reject" THEN DeleteProfileError(outcome)
                  ELSE authError
  /\ profileDeletes' = [profileDeletes EXCEPT ![profileId] =
                          [pc |-> IF outcome = "reject" THEN "false" ELSE "true",
                           active |-> EmptyId]]
  /\ UNCHANGED <<isAuthenticated, isAuthenticating, authProfiles, activeProfileId,
                 storeKeys, nextProfileId, authFlows, profileSwitches, toasts,
                 notAuth>>

\* AuthModal and the profile methods of the authentication store
NextAuth ==
  \/ \E apiKey \in ApiKeys : AuthSubmit(NextFlow, apiKey)
  \/ \E i \in FlowIds, outcome \in Outcomes : ValidateReturns(i, outcome)
  \/ \E i \in FlowIds, outcome \in Outcomes : StoreReturns(i, outcome)
  \/ \E profileId \in ProfileIds : DeleteProfile(profileId)
  \/ \E profileId \in ProfileIds, outcome \in Outcomes :
       DeleteProfileSettles(profileId, outcome)
  \/ \E profileId \in ProfileIds, outcome \in Outcomes :
       DeleteProfileReturns(profileId, outcome)

SpecAuth == Init /\ [][NextAuth]_vars

\* switchProfile(profileId) up to its await of
\* setSetting('auth.activeProfileId', profileId)
SwitchProfile(profileId) ==
  /\ profileSwitches[profileId] # "switching"
  /\ IF HasProfile(profileId)
     THEN /\ profileSwitches' = [profileSwitches EXCEPT ![profileId] = "switching"]
          /\ UNCHANGED authError
     ELSE /\ profileSwitches' = [profileSwitches EXCEPT ![profileId] = "false"]
          /\ authError' = "Profile not found"
  /\ UNCHANGED <<isAuthenticated, isAuthenticating, authProfiles, activeProfileId,
                 storeKeys, storeActiveProfileId, nextProfileId, authFlows,
                 profileDeletes, toasts, notAuth>>

\* the error switchProfile records
SwitchProfileError(outcome) ==
  CASE outcome = "ok" -> authError
    [] outcome = "fail" -> "Failed to switch profile"
    [] outcome = "reject" -> "Unknown error switching profile"

\* if (result.success) in switchProfile, that is taken whatever the answer
Switched_Always(outcome) == TRUE

\* if (result.success) in switchProfile
Switched(outcome) == outcome = "ok"

\* the setting is written or the call failed
SwitchProfileSettles(profileId, outcome) ==
  /\ profileSwitches[profileId] = "switching"
  /\ authError' = SwitchProfileError(outcome)
  /\ storeActiveProfileId' = IF outcome = "ok" THEN profileId
                             ELSE storeActiveProfileId
  /\ IF Switched(outcome)
     THEN /\ activeProfileId' = profileId
          /\ profileSwitches' = [profileSwitches EXCEPT ![profileId] = "true"]
     ELSE /\ profileSwitches' = [profileSwitches EXCEPT ![profileId] = "false"]
          /\ UNCHANGED activeProfileId
  /\ UNCHANGED <<isAuthenticated, isAuthenticating, authProfiles, storeKeys,
                 nextProfileId, authFlows, profileDeletes, toasts, notAuth>>

\* ---------------------------------------------------------------- startup
\* what the startup calls leave alone
notStartup ==
  <<convVars, apiVars, usageVars, viewVars, storeKeys, storeActiveProfileId,
    nextProfileId, authFlows, profileDeletes, profileSwitches>>

\* get-active-profile answers the persisted active profile, null without one
GetActiveProfileAnswers == {"resolve", "reject"}

HasActiveProfile == storeActiveProfileId # EmptyId

\* authStore.initialize() up to its await of getActiveProfile()
Initialize ==
  /\ authInit = "idle"
  /\ authInit' = "loading"
  /\ UNCHANGED <<isAuthenticated, isAuthenticating, authProfiles, activeProfileId,
                 authError, authCheck, notStartup>>

\* initialize() after the answer: a persisted profile is taken as authenticated
InitializeReturns(answer) ==
  /\ authInit = "loading"
  /\ authInit' = "done"
  /\ IF answer = "resolve" /\ HasActiveProfile
     THEN /\ activeProfileId' = storeActiveProfileId
          /\ authProfiles' = <<Profile(storeActiveProfileId, SomeKey)>>
          /\ isAuthenticated' = TRUE
     ELSE UNCHANGED <<activeProfileId, authProfiles, isAuthenticated>>
  /\ UNCHANGED <<isAuthenticating, authError, authCheck, notStartup>>

\* if (this.isAuthenticated && this.activeProfileId)
KnownAuthenticated == isAuthenticated /\ activeProfileId # EmptyId

\* checkAuthentication() up to its first await, or its early return
CheckAuthentication ==
  /\ authCheck.pc \in {"idle", "true", "false"}
  /\ authCheck' = IF KnownAuthenticated THEN [pc |-> "true", profileId |-> EmptyId]
                  ELSE [pc |-> "getProfile", profileId |-> EmptyId]
  /\ UNCHANGED <<isAuthenticated, isAuthenticating, authProfiles, activeProfileId,
                 authError, authInit, notStartup>>

\* the catch block of checkAuthentication
CheckThrown ==
  /\ isAuthenticated' = FALSE
  /\ authError' = "Unknown error checking authentication"
  /\ authCheck' = [pc |-> "false", profileId |-> EmptyId]

\* getActiveProfile() answered
CheckProfileReturns(answer) ==
  /\ authCheck.pc = "getProfile"
  /\ IF answer = "reject" THEN CheckThrown
     ELSE IF ~HasActiveProfile
     THEN /\ isAuthenticated' = FALSE
          /\ authCheck' = [pc |-> "false", profileId |-> EmptyId]
          /\ UNCHANGED authError
     ELSE /\ authCheck' = [pc |-> "getKey", profileId |-> storeActiveProfileId]
          /\ UNCHANGED <<isAuthenticated, authError>>
  /\ UNCHANGED <<isAuthenticating, authProfiles, activeProfileId, authInit,
                 notStartup>>

\* getApiKey(activeProfile.id) answered; a key that is there goes to
\* validateAPIKey, which runs up to its await
CheckKeyReturns(keyAnswer) ==
  /\ authCheck.pc = "getKey"
  /\ IF keyAnswer = "reject"
     THEN CheckThrown /\ UNCHANGED isAuthenticating
     ELSE IF ~HasKey(authCheck.profileId)
     THEN /\ isAuthenticated' = FALSE
          /\ authCheck' = [authCheck EXCEPT !.pc = "false"]
          /\ UNCHANGED <<authError, isAuthenticating>>
     ELSE /\ isAuthenticating' = TRUE
          /\ authError' = Null
          /\ authCheck' = [authCheck EXCEPT !.pc = "validating"]
          /\ UNCHANGED isAuthenticated
  /\ UNCHANGED <<authProfiles, activeProfileId, authInit, notStartup>>

\* validateAPIKey returned; a valid key makes the profile the active one
CheckValidateReturns(outcome) ==
  /\ authCheck.pc = "validating"
  /\ isAuthenticating' = FALSE
  /\ isAuthenticated' = (outcome = "ok")
  /\ authError' = ValidateError(outcome)
  /\ authCheck' = [authCheck EXCEPT !.pc = IF outcome = "ok" THEN "true" ELSE "false"]
  /\ IF outcome = "ok"
     THEN /\ activeProfileId' = authCheck.profileId
          /\ authProfiles' = IF HasProfile(authCheck.profileId) THEN authProfiles
                             ELSE Append(authProfiles,
                                         Profile(authCheck.profileId, SomeKey))
     ELSE UNCHANGED <<activeProfileId, authProfiles>>
  /\ UNCHANGED <<authInit, notStartup>>

\* what an earlier session left in the main-process store: nothing, a profile
\* with its key, a profile whose key was removed, a key after a logout
PersistedStates ==
  { [activeProfileId |-> EmptyId, keys |-> {}],
    [activeProfileId |-> 1, keys |-> {1}],
    [activeProfileId |-> 1, keys |-> {}],
    [activeProfileId |-> EmptyId, keys |-> {1}] }

\* the stores as constructed, over a store file of an earlier session
InitStartup ==
  /\ InitConv /\ InitApi /\ InitView
  /\ isAuthenticated = FALSE
  /\ isAuthenticating = FALSE
  /\ authProfiles = <<>>
  /\ activeProfileId = EmptyId
  /\ authError = Null
  /\ \E persisted \in PersistedStates :
       /\ storeKeys = persisted.keys
       /\ storeActiveProfileId = persisted.activeProfileId
       /\ nextProfileId = IF persisted = [activeProfileId |-> EmptyId, keys |-> {}]
                          THEN 1 ELSE 2
  /\ InitAuthCalls

\* application startup: RootStore.initialize() and App's checkAuthentication()
NextStartup ==
  \/ Initialize
  \/ \E answer \in GetActiveProfileAnswers : InitializeReturns(answer)
  \/ CheckAuthentication
  \/ \E answer \in GetActiveProfileAnswers : CheckProfileReturns(answer)
  \/ \E keyAnswer \in KeyAnswers : CheckKeyReturns(keyAnswer)
  \/ \E outcome \in Outcomes : CheckValidateReturns(outcome)

SpecStartup == InitStartup /\ [][NextStartup]_vars

\* AuthModal and switchProfile
NextProfiles ==
  \/ \E apiKey \in ApiKeys : AuthSubmit(NextFlow, apiKey)
  \/ \E i \in FlowIds, outcome \in Outcomes : ValidateReturns(i, outcome)
  \/ \E i \in FlowIds, outcome \in Outcomes : StoreReturns(i, outcome)
  \/ \E profileId \in ProfileIds : SwitchProfile(profileId)
  \/ \E profileId \in ProfileIds, outcome \in Outcomes :
       SwitchProfileSettles(profileId, outcome)

SpecProfiles == Init /\ [][NextProfiles]_vars

\* C1: in every reachable state, every conversation's metadata.totalTokens is
\* the sum of metadata.tokens over its messages.
C1_TotalTokensIsSum ==
  \A i \in 1 .. Len(conversations) :
    conversations[i].totalTokens = SumTokens(conversations[i].messages)

\* C1 witness: the first message was deleted and the conversation still holds
\* the second one, with a non-zero token count.
C1_Witness ==
  \E i \in 1 .. Len(conversations) :
    /\ Len(conversations[i].messages) = 1
    /\ conversations[i].messages[1].id = 2
    /\ conversations[i].totalTokens = 2

\* ------------------------------------------------------------- submit flow
InFlight == {"getKey", "transport"}

\* C2 (as amended): a submit of a non-empty prompt by an authenticated user
\* appends a user message with the prompt text to the conversation active when
\* it starts (created then if none is active) and raises that conversation's
\* totalTokens by ceil(prompt length / 4); when the dispatcher call succeeds it
\* appends exactly one UsageRecord with the reply's promptTokens and
\* completionTokens and appends an assistant message with the reply content to
\* the conversation active at that moment, if any, raising its totalTokens by
\* the reply's completionTokens.
C2_SubmitStep(i) ==
  /\ (subs[i].pc = "idle" /\ subs'[i].pc = "saveUser") =>
       LET c == subs'[i].conv
           old == IF HasConversation(c) THEN GetConversationById(c)
                  ELSE [messages |-> <<>>, totalTokens |-> 0]
           new == conversations'[FindIndex(conversations', c)]
           n == Len(old.messages)
       IN /\ c = activeConversationId'
          /\ Len(new.messages) = n + 1
          /\ SubSeq(new.messages, 1, n) = old.messages
          /\ new.messages[n + 1].role = "user"
          /\ new.messages[n + 1].content = prompt
          /\ new.totalTokens = old.totalTokens + (Len(prompt) + 3) \div 4
  /\ (subs[i].pc = "transport" /\ subs'[i].pc = "saveAssistant") =>
       /\ Len(usageHistory') = Len(usageHistory) + 1
       /\ SubSeq(usageHistory', 1, Len(usageHistory)) = usageHistory
       /\ usageHistory'[Len(usageHistory')].promptTokens =
            subs'[i].result.data.usage.input_tokens
       /\ usageHistory'[Len(usageHistory')].completionTokens =
            subs'[i].result.data.usage.output_tokens
       /\ IF HasActiveConversation
          THEN LET old == GetActiveConversation
                   new == conversations'[GetConversationIndex(activeConversationId)]
                   n == Len(old.messages)
               IN /\ Len(new.messages) = n + 1
                  /\ SubSeq(new.messages, 1, n) = old.messages
                  /\ new.messages[n + 1].role = "assistant"
                  /\ new.messages[n + 1].content = subs'[i].result.data.content
                  /\ new.totalTokens =
                       old.totalTokens + subs'[i].result.data.usage.output_tokens
          ELSE conversations' = conversations

C3_OneRequestInFlight ==
  Cardinality({i \in SubIds : subs[i].pc \in InFlight}) <= 1

\* C4 as stated: the reply of a request that abortRequest() cancelled is never
\* stored as lastResponse nor appended as an assistant message.
C4_AbortedReplyDropped ==
  \A i \in SubIds :
    subs[i].aborted => subs[i].pc \notin {"saveAssistant", "done"}

\* C5: a submit of a prompt that is not empty while nobody is authenticated
\* changes no conversation, creates none, starts no sendPrompt call and raises
\* exactly one error toast.
C5_SubmitStep(i) ==
  ( /\ subs[i].pc = "idle"
    /\ subs'[i].pc # "idle"
    /\ Trim(prompt) # <<>>
    /\ ~isAuthenticated )
  => /\ conversations' = conversations
     /\ nextConvId' = nextConvId
     /\ subs'[i].pc = "unauthenticated"
     /\ \A j \in SubIds : subs'[j].pc \in InFlight => subs[j].pc \in InFlight
     /\ UNCHANGED apiVars
     /\ Len(toasts') = Len(toasts) + 1
     /\ SubSeq(toasts', 1, Len(toasts)) = toasts
     /\ toasts'[Len(toasts')].status = "error"

C6_FailureAddsSystemMessage ==
  \A i \in SubIds :
    (subs[i].pc = "failed" /\ HasConversation(subs[i].conv)) =>
      CountRole(GetConversationById(subs[i].conv).messages, "system") > 0

\* C7: a submit whose sendPrompt call set isLoading leads to that call having
\* returned with isLoading false.
C7_LoadingEnds ==
  \A i \in SubIds :
    (subs[i].pc \in InFlight) ~> (subs[i].pc \notin InFlight /\ ~isLoading)

\* C7 witness: a sendPrompt call that found no API key has returned.
C7_Witness ==
  \E i \in SubIds :
    /\ subs[i].pc = "failed"
    /\ apiError = "No API key available"
    /\ ~isLoading

\* C8: a sendPrompt call returns null with error set for every failure, and a
\* normalized response only for a successful answer with content and usage.
WellFormed(result) ==
  /\ result.settled = "resolve"
  /\ result.success
  /\ "content" \in DOMAIN result.data
  /\ "usage" \in DOMAIN result.data

C8_ReturnStep(i) ==
  (subs[i].pc \in InFlight /\ subs'[i].pc \notin InFlight) =>
    /\ subs'[i].pc \in {"failed", "saveAssistant"}
    /\ subs'[i].pc = "saveAssistant" <=> WellFormed(subs'[i].result)
    /\ subs'[i].pc = "failed" =>
         subs'[i].response = NullResponse /\ apiError' # Null
    /\ subs'[i].pc = "saveAssistant" =>
         /\ subs'[i].response =
              [ content |-> subs'[i].result.data.content,
                inputTokens |-> subs'[i].result.data.usage.input_tokens,
                outputTokens |-> subs'[i].result.data.usage.output_tokens ]
         /\ lastResponse' = subs'[i].response

C8_SendPromptNeverThrows == [][\A i \in SubIds : C8_ReturnStep(i)]_vars

\* C8 witness: a call has returned null after a reply with usage and no
\* content.
C8_Witness ==
  /\ subs[1].pc = "failed"
  /\ subs[1].result = [settled |-> "resolve", success |-> TRUE,
                       data |-> [usage |-> ReplyUsage]]
  /\ apiError = "TypeError"
  /\ lastResponse = NullResponse

\* ---------------------------------------------------------- authentication
\* C9: when validateAPIKey returns false, isAuthenticated and isAuthenticating
\* are false and error is set, and the AuthModal submit ends there: it calls no
\* storeAPIKey, adds no profile and leaves activeProfileId alone.
C9_ValidateStep(i) ==
  /\ ( /\ authFlows[i].pc = "validating"
       /\ authFlows'[i].pc # "validating"
       /\ authFlows'[i].isValid = FALSE )
     => /\ isAuthenticated' = FALSE
        /\ isAuthenticating' = FALSE
        /\ authError' # Null
        /\ authFlows'[i].pc = "invalid"
        /\ nextProfileId' = nextProfileId
        /\ authProfiles' = authProfiles
        /\ activeProfileId' = activeProfileId
        /\ storeKeys' = storeKeys
  /\ authFlows[i].pc = "invalid" => authFlows'[i] = authFlows[i]

C9_InvalidKeyNotStored == [][\A i \in FlowIds : C9_ValidateStep(i)]_vars

\* C9 witness: with profile 1 stored and active, a second key failed
\* validation and the submit ended without storing it.
C9_Witness ==
  /\ authFlows[1].pc = "stored"
  /\ authFlows[2].pc = "invalid"
  /\ authProfiles = <<Profile(1, SomeKey)>>
  /\ activeProfileId = 1
  /\ ~isAuthenticated
  /\ authError # Null

\* C10: when deleteProfile removes the profile that is active, activeProfileId
\* becomes the id of a remaining profile and isAuthenticated true if another
\* profile remains, and "" and false otherwise; when it removes another
\* profile both stay as they are; nothing else in the call changes them.
C10_DeleteStep(profileId) ==
  /\ ( /\ profileDeletes[profileId].pc = "deleting"
       /\ profileDeletes'[profileId].pc \in {"savingActive", "true"} )
     => IF activeProfileId = profileId
        THEN IF \E k \in 1 .. Len(authProfiles) : authProfiles[k].id # profileId
             THEN /\ activeProfileId' # profileId
                  /\ \E k \in 1 .. Len(authProfiles') :
                       authProfiles'[k].id = activeProfileId'
                  /\ isAuthenticated' = TRUE
             ELSE /\ activeProfileId' = EmptyId
                  /\ isAuthenticated' = FALSE
        ELSE /\ activeProfileId' = activeProfileId
             /\ isAuthenticated' = isAuthenticated
  /\ ( /\ profileDeletes[profileId].pc = "savingActive"
       /\ profileDeletes'[profileId].pc # "savingActive" )
     => UNCHANGED <<activeProfileId, isAuthenticated, authProfiles>>

C10_DeleteActiveProfile == [][\A profileId \in ProfileIds : C10_DeleteStep(profileId)]_vars

\* C10 witness: the only profile ever stored was deleted and deleteProfile
\* returned true.
C10_Witness ==
  /\ authFlows[1].pc = "stored"
  /\ authFlows[2].pc = "idle"
  /\ profileDeletes[1].pc = "true"
  /\ authProfiles = <<>>
  /\ activeProfileId = EmptyId
  /\ ~isAuthenticated

\* ------------------------------------------------------------ store contract
\* C11 as stated: a conversation-level method given an id that is not in the
\* store returns false, sets error and changes nothing else.
C11_UnknownIdStep(id) ==
  ( /\ ~HasConversation(id)
    /\ \/ SetActiveConversation(id)
       \/ \E outcome \in Outcomes : DeleteConversationSettles(id, outcome)
       \/ \E outcome \in Outcomes : ToggleFavorite(id, outcome) )
  => /\ returned' = "false"
     /\ convError' # Null
     /\ UNCHANGED <<conversations, activeConversationId, conversationTags>>

C11_UnknownIdFails == [][\A id \in StoreIds : C11_UnknownIdStep(id)]_vars

\* C12: switchProfile of a known profile returns true, with activeProfileId
\* set to it, exactly when setSetting stored the new active id; when that call
\* answers failure or rejects it returns false with error set and leaves
\* activeProfileId and isAuthenticated as they were.
C12_SwitchStep(profileId) ==
  /\ (profileSwitches[profileId] # "switching"
        /\ profileSwitches'[profileId] = "switching")
     => HasProfile(profileId) /\ UNCHANGED <<activeProfileId, isAuthenticated>>
  /\ (profileSwitches[profileId] = "switching"
        /\ profileSwitches'[profileId] # "switching")
     => /\ profileSwitches'[profileId] \in {"true", "false"}
        /\ profileSwitches'[profileId] = "true" =>
             /\ storeActiveProfileId' = profileId
             /\ activeProfileId' = profileId
        /\ profileSwitches'[profileId] = "false" =>
             /\ storeActiveProfileId' = storeActiveProfileId
             /\ authError' # Null
             /\ activeProfileId' = activeProfileId
             /\ isAuthenticated' = isAuthenticated

C12_SwitchPersisted ==
  [][\A profileId \in ProfileIds : C12_SwitchStep(profileId)]_vars

\* C12 witness: with two profiles stored, a switch to the first succeeded and a
\* later switch back to the second failed, so the first is still active.
C12_Witness ==
  /\ Len(authProfiles) = 2
  /\ profileSwitches[1] = "true"
  /\ profileSwitches[2] = "false"
  /\ activeProfileId = 1
  /\ storeActiveProfileId = 1
  /\ authError = "Failed to switch profile"

\* C13: when the store-api-key call answers failure or rejects, storeAPIKey
\* returns false with error set, adds no profile and leaves activeProfileId
\* alone; when it succeeds, storeAPIKey appends exactly one profile, with an id
\* no profile had and the last 4 characters of the key, and makes it active.
C13_StoreStep(i) ==
  (authFlows[i].pc = "storing" /\ authFlows'[i].pc # "storing") =>
    LET id == authFlows[i].profileId
        key == authFlows[i].apiKey
    IN /\ authFlows'[i].pc \in {"stored", "storeFailed"}
       /\ authFlows'[i].pc = "stored" <=> id \in storeKeys'
       /\ authFlows'[i].pc = "storeFailed" =>
            /\ authError' # Null
            /\ authProfiles' = authProfiles
            /\ activeProfileId' = activeProfileId
            /\ storeKeys' = storeKeys
       /\ authFlows'[i].pc = "stored" =>
            /\ ~HasProfile(id)
            /\ id \notin storeKeys
            /\ Len(authProfiles') = Len(authProfiles) + 1
            /\ SubSeq(authProfiles', 1, Len(authProfiles)) = authProfiles
            /\ authProfiles'[Len(authProfiles')] =
                 [id |-> id, keyLastDigits |-> SubSeq(key, Len(key) - 3, Len(key))]
            /\ activeProfileId' = id

C13_StoreFailsClosed == [][\A i \in FlowIds : C13_StoreStep(i)]_vars

\* C13 witness: the first key was stored as profile 1 with its last four
\* characters, the second submit's write failed and added nothing.
C13_Witness ==
  /\ authFlows[1].pc = "stored"
  /\ authFlows[2].pc = "storeFailed"
  /\ authProfiles = <<[id |-> 1, keyLastDigits |-> <<"k", "-", "1", "2">>]>>
  /\ activeProfileId = 1
  /\ storeKeys = {1}
  /\ authError = "Failed to store API key"

\* ----------------------------------------------------------------- startup
\* C14 as stated: checkAuthentication returns true only after it validated the
\* persisted secret successfully, and when it returns false isAuthenticated
\* is false.
C14_CheckStep ==
  (authCheck'.pc # authCheck.pc /\ authCheck'.pc \in {"true", "false"}) =>
    /\ authCheck'.pc = "true" =>
         authCheck.pc = "validating" /\ HasKey(authCheck.profileId)
    /\ authCheck'.pc = "false" => ~isAuthenticated'

C14_CheckRevalidates == [][C14_CheckStep]_vars

\* C15 as stated: at most one AuthModal submit is between the start of its
\* validateAPIKey call and the end of its storeAPIKey call.
C15_OneCredentialOperation ==
  Cardinality({i \in FlowIds : authFlows[i].pc \in {"validating", "storing"}}) <= 1

\* C16: a deleteMessage(id) that finds the message in the active conversation
\* removes it and lowers totalTokens by its tokens; message ids are never
\* handed out again, and a deleteMessage(id) that does not find the message
\* returns false and leaves every message list and every totalTokens alone.
C16_DeleteStep(messageId) ==
  (\E outcome \in Outcomes : DeleteMessage(messageId, outcome)) =>
    /\ \A c \in 1 .. Len(conversations') :
         \A k \in 1 .. Len(conversations'[c].messages) :
           conversations'[c].messages[k].id < nextMsgId'
    /\ IF HasActiveConversation
          /\ \E k \in 1 .. Len(GetActiveConversation.messages) :
               GetActiveConversation.messages[k].id = messageId
       THEN LET old == GetActiveConversation
                new == conversations'[GetConversationIndex(activeConversationId)]
                k == CHOOSE k \in 1 .. Len(old.messages) :
                       old.messages[k].id = messageId
            IN /\ new.messages =
                    SubSeq(old.messages, 1, k - 1)
                      \o SubSeq(old.messages, k + 1, Len(old.messages))
               /\ \A j \in 1 .. Len(new.messages) : new.messages[j].id # messageId
               /\ new.totalTokens = old.totalTokens - old.messages[k].tokens
       ELSE /\ returned' = "false"
            /\ conversations' = conversations

C16_DeleteMessageOnce == [][\A messageId \in MsgIds : C16_DeleteStep(messageId)]_vars

\* C16 witness: message 1 was deleted, a second deleteMessage(1) did not find
\* it and returned false, and the conversation still holds message 2 alone.
C16_Witness ==
  /\ HasActiveConversation
  /\ Len(GetActiveConversation.messages) = 1
  /\ GetActiveConversation.messages[1].id = 2
  /\ GetActiveConversation.totalTokens = 2
  /\ convError = "Message not found"
  /\ returned = "false"

\* C17: when deleteConversation(id) succeeds, id is no longer in the store and
\* the other conversations keep their order; if id was the active conversation
\* the first remaining conversation becomes active, or none when the store is
\* empty; otherwise activeConversationId stays as it was.
C17_DeleteStep(id) ==
  DeleteConversationSettles(id, "ok") =>
    LET others == {k \in 1 .. Len(conversations) : conversations[k].id # id} IN
    /\ returned' = "true"
    /\ \A k \in 1 .. Len(conversations') : conversations'[k].id # id
    /\ Len(conversations') = Cardinality(others)
    /\ \A k \in others :
         conversations'[Cardinality({j \in others : j <= k})] = conversations[k]
    /\ IF activeConversationId # id
       THEN activeConversationId' = activeConversationId
       ELSE IF others = {}
       THEN activeConversationId' = EmptyId
       ELSE activeConversationId' =
              conversations[CHOOSE k \in others : \A j \in others : k <= j].id

C17_DeleteConversation == [][\A id \in StoreIds : C17_DeleteStep(id)]_vars

\* C17 witness: the first saved conversation was deleted while it was active;
\* the second saved conversation, now first in the store, became active ahead
\* of the conversation created in this session.
C17_Witness ==
  /\ Len(conversations) = 2
  /\ conversations[1].id = 102
  /\ conversations[2].id = 1
  /\ activeConversationId = 102
  /\ pendingDeletes = {}
  /\ returned = "true"
  /\ convError = Null

\* C18 as stated: a title that was passed to createConversation or set by
\* updateTitle, whatever its text, is not changed by an addMessage.
C18_AddStep ==
  (\E content \in Contents, role \in Roles, metadata \in Metadatas,
      outcome \in Outcomes : AddMessage(content, role, metadata, outcome))
  => \A k \in 1 .. Len(conversations) :
       conversations[k].title \in ExplicitTitles =>
         conversations'[k].title = conversations[k].title

C18_ExplicitTitleKept == [][C18_AddStep]_vars

\* ------------------------------------------------------------------ search
\* the same letter, whatever its case
SameLetter(a, b) == ToLower(a) = ToLower(b)

\* text contains part when case is ignored
ContainsIgnoringCase(text, part) ==
  \E k \in 0 .. Len(text) - Len(part) :
    \A j \in 1 .. Len(part) : SameLetter(text[k + j], part[j])

\* the conversations a search for query and tags has to list
Wanted(conv, query, tags) ==
  /\ (tags.given /\ tags.list # <<>>) =>
       \E tag \in {tags.list[k] : k \in 1 .. Len(tags.list)} :
         tag \in {conv.tags[j] : j \in 1 .. Len(conv.tags)}
  /\ query # <<>> =>
       \/ ContainsIgnoringCase(conv.title, query)
       \/ \E k \in 1 .. Len(conv.messages) :
            ContainsIgnoringCase(conv.messages[k].content, query)

\* C19: searchConversations with an empty query and no tags returns the whole
\* store in store order; for any query and tags it returns a list holding, in
\* store order, exactly the conversations that carry one of the given tags
\* (when tags are given) and whose title or some message content contains the
\* query, case ignored (when a query is given).
C19_SearchStep ==
  lastSearch' # lastSearch =>
    LET query == lastSearch'.query
        tags == lastSearch'.tags
        result == lastSearch'.result
    IN /\ Search(query, tags)
       /\ (query = <<>> /\ (~tags.given \/ tags.list = <<>>)) =>
            /\ result = conversations
            /\ Len(result) = Len(conversations)
       /\ result = SelectSeq(conversations, LAMBDA conv : Wanted(conv, query, tags))

C19_SearchResult == [][C19_SearchStep]_vars

\* C19 witness: with the second saved conversation renamed "T", a search for
\* "I" with the tag "a" returned the first saved conversation, titled "Hi" and
\* tagged "a", and nothing else.
C19_Witness ==
  /\ Len(conversations) = 2
  /\ conversations[2].title = <<"T">>
  /\ lastSearch = [called |-> TRUE, query |-> <<"I">>, tags |-> Tags(<<"a">>),
                   result |-> <<SavedFirst>>]

\* -------------------------------------------------- failed persistence write
\* the answers of the persistence write that are failures
Failures == {"fail", "reject"}

\* the active conversation before and after the step
C20_Active == GetConversationById(activeConversationId)

C20_ActiveAfter == conversations'[GetConversationIndex(activeConversationId)]

C20_AddStep ==
  \A content \in Contents, role \in Roles, metadata \in Metadatas,
     outcome \in Failures :
    (HasActiveConversation /\ AddMessage(content, role, metadata, outcome)) =>
      LET msgs == C20_ActiveAfter.messages IN
      /\ convError' # Null
      /\ Len(conversations') = Len(conversations)
      /\ Len(msgs) = Len(C20_Active.messages) + 1
      /\ msgs[Len(msgs)].content = content
      /\ msgs[Len(msgs)].role = role

C20_UpdateStep ==
  \A messageId \in MsgIds, updates \in MessageUpdates, outcome \in Failures :
    (/\ HasActiveConversation
     /\ FindIndex(C20_Active.messages, messageId) # 0
     /\ UpdateMessage(messageId, updates, outcome)) =>
      LET k == FindIndex(C20_Active.messages, messageId) IN
      /\ convError' # Null
      /\ Len(C20_ActiveAfter.messages) = Len(C20_Active.messages)
      /\ UpdatesTokens(updates) =>
           C20_ActiveAfter.messages[k].tokens = updates.metadata.tokens

C20_DeleteStep ==
  \A messageId \in MsgIds, outcome \in Failures :
    (/\ HasActiveConversation
     /\ FindIndex(C20_Active.messages, messageId) # 0
     /\ DeleteMessage(messageId, outcome)) =>
      /\ convError' # Null
      /\ Len(C20_ActiveAfter.messages) = Len(C20_Active.messages) - 1
      /\ \A k \in 1 .. Len(C20_ActiveAfter.messages) :
           C20_ActiveAfter.messages[k].id # messageId

C20_FieldStep ==
  \A id \in ConvIds, outcome \in Failures :
    HasConversation(id) =>
      LET k == GetConversationIndex(id) IN
      /\ \A tags \in TagLists :
           UpdateTags(id, tags, outcome) =>
             convError' # Null /\ conversations'[k].tags = tags
      /\ ToggleFavorite(id, outcome) =>
           /\ convError' # Null
           /\ conversations'[k].favorited = ~conversations[k].favorited
      /\ \A title \in ExplicitTitles :
           UpdateTitle(id, title, outcome) =>
             convError' # Null /\ conversations'[k].title = title

\* C20: when the persistence write of addMessage, updateMessage,
\* deleteMessage, updateTags, toggleFavorite or updateTitle answers failure or
\* rejects, the store's error is set and the conversation in memory carries
\* the change that was asked for: nothing is rolled back.
C20_FailedSaveKeepsMutation ==
  [][C20_AddStep /\ C20_UpdateStep /\ C20_DeleteStep /\ C20_FieldStep]_vars

\* C20 witness: an updateTags whose write was rejected: the conversation has
\* the new tags, the error is set, the call returned false and the list of
\* available tags was not rebuilt.
C20_Witness ==
  /\ Len(conversations) = 1
  /\ conversations[1].tags = <<"b", "a">>
  /\ conversationTags = <<>>
  /\ convError = "Unknown error saving conversation"
  /\ returned = "false"

\* ------------------------------------------------------------- usage ledger
\* C21 as stated: a mutating store operation returns only after its
\* persistence call has completed. recordUsage is synchronous, so in every
\* state each recordUsage call made so far has returned and none of their
\* persistence calls may still be in flight.
C21_WritesCompleteBeforeReturn == usageSaves = 0

\* one dollar in the unit costs are kept in
Dollar == 1000000

C22_RecordStep(promptTokens, completionTokens, model) ==
  RecordUsageCall(promptTokens, completionTokens, model) =>
    LET n == Len(usageHistory)
        record == usageHistory'[n + 1]
        rates == IF model \in DOMAIN ModelRates THEN ModelRates[model]
                 ELSE ModelRates[DefaultModel]
        summary == GetUsageSummaryAll(usageHistory')
    IN /\ Len(usageHistory') = n + 1
       /\ SubSeq(usageHistory', 1, n) = usageHistory
       /\ record.promptTokens = promptTokens
       /\ record.completionTokens = completionTokens
       /\ record.model = model
       /\ record.cost = (promptTokens \div Dollar) * (rates.prompt * (Dollar \div RateScale))
                          + (completionTokens \div Dollar)
                              * (rates.completion * (Dollar \div RateScale))
       /\ (model = "claude-3-opus-20240229" /\ promptTokens = 1000000
             /\ completionTokens = 1000000) => record.cost = 90 * Dollar
       /\ n = 0 =>
            /\ summary.totalCost = record.cost
            /\ summary.totalPromptTokens = promptTokens
            /\ summary.totalCompletionTokens = completionTokens
            /\ DOMAIN summary.usageByModel = {model}
            /\ summary.usageByModel[model] =
                 [ promptTokens |-> promptTokens,
                   completionTokens |-> completionTokens, cost |-> record.cost ]
            /\ DOMAIN summary.dailyUsage = {record.date}
            /\ summary.dailyUsage[record.date].tokens = promptTokens + completionTokens
            /\ summary.dailyUsage[record.date].cost = record.cost

\* C22: recordUsage(p, c, model) appends exactly one record whose cost is
\* p/1,000,000 x the model's prompt rate + c/1,000,000 x its completion rate
\* (whole millions of tokens here); a million prompt and a million completion
\* tokens of claude-3-opus-20240229 cost 90 dollars, and getUsageSummary() over
\* a ledger holding one record reports that record's cost and token totals.
C22_CostFromPriceTable ==
  [][\A promptTokens \in PriceTokens, completionTokens \in PriceTokens,
        model \in UsageModels :
       C22_RecordStep(promptTokens, completionTokens, model)]_vars

\* C22 witness: the ledger holds the one record of a million prompt and a
\* million completion tokens of claude-3-opus-20240229, at 90 dollars, and the
\* summary reports 90 dollars.
C22_Witness ==
  /\ Len(usageHistory) = 1
  /\ usageHistory[1].model = "claude-3-opus-20240229"
  /\ usageHistory[1].promptTokens = 1000000
  /\ usageHistory[1].completionTokens = 1000000
  /\ usageHistory[1].cost = 90 * Dollar
  /\ GetUsageSummaryAll(usageHistory).totalCost = 90 * Dollar

\* getUsageSummary over the calendar month of a day
C23_MonthSummary(history, now) ==
  GetUsageSummary(history, Date(now.month, 1),
                  Date(now.month, DaysInMonth(now.month)))

C23_RecordStep ==
  usageHistory' # usageHistory =>
    currentMonthUsage' = C23_MonthSummary(usageHistory', today')

\* C23 as stated: after every recordUsage call, also when the calls span a
\* change of month, currentMonthUsage equals getUsageSummary over the records
\* dated in the current calendar month.
C23_CurrentMonthIsSummary == [][C23_RecordStep]_vars

\* the number of a day in its year
RECURSIVE C24_DaysBefore(_)
C24_DaysBefore(month) ==
  IF month = 1 THEN 0 ELSE C24_DaysBefore(month - 1) + DaysInMonth(month - 1)

C24_DayNumber(date) == C24_DaysBefore(date.month) + date.day

\* the records of the 7 calendar days that end with now
C24_Trailing(history, now) ==
  SelectSeq(history,
            LAMBDA record :
              /\ C24_DayNumber(record.date) <= C24_DayNumber(now)
              /\ C24_DayNumber(record.date) > C24_DayNumber(now) - 7)

C24_DaysWithRecords(records) ==
  Cardinality({records[k].date : k \in 1 .. Len(records)})

\* (cost / days) * times = (total / dayCount) * 30, or 0 without such a day
C24_IsTrailingAverage(projection, records) ==
  IF C24_DaysWithRecords(records) = 0
  THEN projection.cost * projection.times = 0
  ELSE projection.cost * projection.times * C24_DaysWithRecords(records)
         = SumCost(records) * 30 * projection.days

C24_RecordStep ==
  usageHistory' # usageHistory =>
    C24_IsTrailingAverage(costEstimate'.monthlyProjection,
                          C24_Trailing(usageHistory', today'))

\* C24 as stated: the monthly projection, as recordUsage leaves it, is the
\* average daily cost over the trailing 7 calendar days, counting only the
\* days that have a record, times 30, and 0 when none of those days has one.
C24_ProjectionIsTrailingAverage == [][C24_RecordStep]_vars

\* ---------------------------------------------------------- available tags
\* the tags that occur on some conversation of the store
C25_TagsInUse ==
  UNION { {conversations[k].tags[j] : j \in 1 .. Len(conversations[k].tags)} :
          k \in 1 .. Len(conversations) }

\* C25 as stated: whenever no conversation operation is mid-flight,
\* conversationTags holds exactly the distinct tags of the conversations in
\* the store, also after an updateTags whose persistence write failed.
C25_TagsMatchConversations ==
  pendingDeletes = {} =>
    {conversationTags[k] : k \in 1 .. Len(conversationTags)} = C25_TagsInUse

\* ------------------------------------------------- replies and conversations
C26_ReplyStep(i) ==
  (subs[i].pc = "transport" /\ subs'[i].pc = "saveAssistant") =>
    LET c == subs[i].conv IN
    /\ HasConversation(c)
    /\ FindIndex(conversations', c) # 0
    /\ LET old == GetConversationById(c).messages
           new == conversations'[FindIndex(conversations', c)].messages
       IN /\ Len(new) = Len(old) + 1
          /\ new[Len(new)].role = "assistant"
          /\ new[Len(new)].content = subs'[i].response.content

\* C26 as stated: the assistant message of a submit is appended to the
\* conversation that received the submit's user message, also when the active
\* conversation changes while the request is in flight.
C26_ReplyJoinsItsConversation == [][\A i \in SubIds : C26_ReplyStep(i)]_vars

\* ------------------------------------------------------ active conversation
\* C27 as stated: under any interleaving of initialize, createConversation,
\* setActiveConversation, deleteConversation and reset, activeConversationId
\* is empty or the id of a conversation in the store, and the ids of the
\* conversations in the store are pairwise distinct.
C27_ActiveIsInStore ==
  /\ activeConversationId = EmptyId \/ HasConversation(activeConversationId)
  /\ \A j, k \in 1 .. Len(conversations) :
       conversations[j].id = conversations[k].id => j = k

\* ------------------------------------------------- authenticated and profile
\* no credential operation is between its call and its return
C28_NoCredentialOperation ==
  /\ ~isAuthenticating
  /\ \A i \in FlowIds : authFlows[i].pc \notin {"validating", "storing"}
  /\ \A id \in ProfileIds :
       /\ profileDeletes[id].pc \notin {"deleting", "savingActive"}
       /\ profileSwitches[id] # "switching"
  /\ authInit \in {"idle", "done"}
  /\ authCheck.pc \in {"idle", "true", "false"}

\* C28 as stated: whenever no credential operation is mid-flight,
\* isAuthenticated is true only if activeProfileId is non-empty and names a
\* profile contained in authProfiles.
C28_AuthenticatedHasProfile ==
  (C28_NoCredentialOperation /\ isAuthenticated) =>
    (activeProfileId # EmptyId /\ HasProfile(activeProfileId))

\* ----------------------------------------------------- requests and ledger
\* sendPrompt call i returns in this step: non-null when handleSubmit goes on
\* to save the reply, null when it goes to its failure branch
C29_ReturnStep(i) ==
  /\ (subs[i].pc = "transport" /\ subs'[i].pc = "saveAssistant") =>
       /\ Len(usageHistory') = Len(usageHistory) + 1
       /\ SubSeq(usageHistory', 1, Len(usageHistory)) = usageHistory
  /\ (subs[i].pc \in {"getKey", "transport"} /\ subs'[i].pc = "failed") =>
       usageHistory' = usageHistory

\* C29 as stated: the usage ledger gains exactly one record for each
\* sendPrompt call that returns a response and none for a call that returns
\* null.
C29_RecordPerResponse == [][\A i \in SubIds : C29_ReturnStep(i)]_vars

\* ------------------------------------------------------------ loading flag
\* C30 as stated: while a sendPrompt call waits for the transport isLoading is
\* true and abortController is non-null, and when no sendPrompt call is under
\* way isLoading is false and abortController is null; also when calls
\* overlap and after abortRequest.
C30_LoadingTracksRequests ==
  /\ (\E i \in SubIds : subs[i].pc = "transport") =>
       (isLoading /\ abortController # NoController)
  /\ (\A i \in SubIds : subs[i].pc \notin {"getKey", "transport"}) =>
       (~isLoading /\ abortController = NoController)

====
